---- MODULE Spec2Model ----
(***************************************************************************)
(* Reminder scheduling and lifecycle engine of the meeting-reminder bot.   *)
(*                                                                         *)
(* src/__main__.py launches one of two engines over the same reminders     *)
(* table (telegram_meeting_bot/core/storage.py):                           *)
(*   "aiogram"  telegram_meeting_bot/aiogram_app/app.py, the default;      *)
(*   "ptb"      telegram_meeting_bot/bot/main.py, when LEGACY_PTB=1.       *)
(* Both drive the same third-party scheduler.  The aiogram engine adds a   *)
(* timer under the job id with replace_existing; the ptb engine adds a     *)
(* timer under a fresh scheduler id and finds it again by its name, so     *)
(* several timers may carry one job id.  A date timer leaves the scheduler *)
(* when it is dispatched, and its handler starts as a task of its own; a   *)
(* timer added with a run date that has passed is dispatched at once.      *)
(*                                                                         *)
(* Time is counted in seconds.  Handlers are asyncio coroutines: the code  *)
(* between two awaits that really suspend is one atomic step.  In the      *)
(* aiogram fire handler the send (_send_safe) suspends; in the ptb fire    *)
(* handler the send is a put on an unbounded queue, which does not.        *)
(*                                                                         *)
(* Spec is the run of the launched engine.  PureSpec applies the pure      *)
(* functions the engines call (the two parsers of a meeting line, the      *)
(* fire time of a new job, the lead offset and the time zone of a chat)    *)
(* to inputs drawn from bounded sets; probe holds the last application.    *)
(* The components that keep a state of their own, apart from the reminders *)
(* table and the scheduler, each run under a specification of their own:   *)
(* ChatsSpec is the list of known chats under register_chat and            *)
(* unregister_chat; DedupSpec is the dedup guard of the ptb engine as the  *)
(* deque it is; SendSpec is the send queue of the ptb engine with its      *)
(* worker, which the scheduler keeps running; CallbackSpec is on_callback  *)
(* of the ptb engine with its lock per message and its idempotency keys;   *)
(* PickSpec is the pending reminders of a private chat of the aiogram      *)
(* engine.                                                                 *)
(***************************************************************************)
EXTENDS Integers, FiniteSets, Sequences, Bags, TLC

\* ---------------------------------------------------------------- bounds
MaxJobs    == 2    \* job ids 1..MaxJobs (uuid4 ids are never reused)
MaxCreates == 1    \* ids given to reminders by create, the one found at start included
MaxTicks   == 2    \* number of clock advances in one behaviour
MaxTasks   == 2    \* fire-handler coroutines alive at the same time
MaxSends   == 2    \* delivery attempts per job id
MaxShifts  == 1
MaxDirect  == 1    \* reminders sent at once by create requests
MaxRrule   == 1    \* jobs whose repeat rule is changed
MaxCalls   == 3    \* calls of a component in one behaviour
MaxFill    == 31   \* create requests that fill the dedup guard before the calls
MaxAttempts == 3   \* the largest retries a _telegram_call is given
MaxTokens  == 3    \* tokens issued for pending reminders in one behaviour
MaxPicks   == 2    \* runs of schedule_reminder counted for one token
MaxQueries == 3    \* callback queries in one behaviour
MaxClock   == 70   \* the event loop's time stops here
MaxPuts    == 4    \* reminders put on the send queue in one behaviour
MaxTakes   == 2    \* times the queue worker hands out one reminder

\* ------------------------------------------------------ program constants
Day  == 86400                       \* timedelta(days=1)
Week == 604800                      \* timedelta(weeks=1)
Year == 31536000                    \* datetime(year + 1, ...): same date, next year
CATCHUP_WINDOW_SECONDS == 300
DEFAULT_OFFSET_MINUTES == 30
SYNC_TOLERANCE_SECONDS == 59
MIN_DELAY_SECONDS      == 2         \* ptb: "if delay_seconds <= 2"
ADJUSTED_DELAY_SECONDS == 5         \* ptb: "delay_seconds = 5"
CALLBACK_LOCK_TTL == 20
IDEMPOTENCY_TTL   == 60
RECENT_MAXLEN == 30                 \* recent_signatures = deque(maxlen=30)
RR_ONCE   == "once"
RR_DAILY  == "daily"
RR_WEEKLY == "weekly"

\* ------------------------------------------------------------- universes
Engines == {"aiogram", "ptb"}
JobIds  == 1..MaxJobs
Users   == {"adm", "usr"}           \* an administrator and an ordinary user
ADMIN_USERNAMES == {"adm"}
Texts   == {"t1", "t2"}             \* meeting lines that match MEETING_REGEX
BadText == "bad"                    \* a line that does not match
Chats   == {"c1", "c2"}
ShiftMinutes == {5, 10}             \* the +5 / +10 buttons of actions_kb
Now0    == 10 * Day                 \* wall clock when the process starts
Steps   == {7}                      \* clock advance: the lag of a handler
Downtimes == {900, 1500}            \* time the process stays down in a restart
Offsets == {2}                      \* a lead offset configured for a chat, minutes
Outcomes == {"ok", "network", "rate_limit", "bad_request", "forbidden"}
Queries   == 1..MaxQueries          \* the n-th callback query to arrive
Messages  == {"m1"}                 \* _callback_lock_key: (chat id, message id)
IdemKeys  == {"d1", "d2"}           \* blake2b of the callback data and the user id
ClockStep == 10                     \* seconds between two looks at the event loop
Tokens    == 1..MaxTokens           \* uuid4 tokens, in the order they are issued
Reminders == 1..MaxPuts             \* the n-th reminder put on the send queue

\* A row of the reminders table.  A key the stored dict lacks is "none",
\* "absent", -1, <<>> or FALSE; NoRec is the missing row.
NoRec   == [text |-> "none", run_at |-> -1, rrule |-> "absent", author |-> "none",
            chat |-> "none", offset |-> -1, signature |-> <<>>, confirmed |-> FALSE]
NoTimer == {}
\* no entry under an idempotency key; a callback query that has not arrived
NoEntry == [status |-> "none", expires |-> 0]
NoQuery == [pc |-> "none", msg |-> "none", idem |-> "none", at |-> -1, ended |-> -1]
\* a reminder no fire handler has put on the send queue
NotPut == [put |-> FALSE, taken |-> 0, ended |-> 0, logged |-> 0]
\* no pure function applied yet
Idle == [fn |-> "none", arg |-> <<>>, out |-> <<>>]

VARIABLES
  now,        \* wall clock, seconds
  phase,      \* "boot" before the startup hook has run, "run" afterwards
  engine,     \* the engine src/__main__.py launches
  store,      \* reminders table: job id -> row, NoRec when absent
  sched,      \* scheduler: job id -> run dates of the pending timers of that id
  tasks,      \* bag of fire-handler coroutines that are alive
  confirms,   \* ptb: job ids whose create handler awaits the confirmation reply
  sigs,       \* ptb: recent_signatures, the in-memory dedup window
  attempts,   \* job id -> number of sends started for it
  nextId,     \* next unused job id
  debounced,  \* aiogram: users whose callback was accepted at the current instant
  ticks,      \* clock advances so far
  shifts,     \* job id -> number of shifts behind the reminder it names
  bare,       \* ptb: job ids whose timers were added by restore_jobs
  kind,       \* job id -> rrule the job was persisted with ("none" before)
  ops,        \* job id -> what users did to the job: "cancel", "sendnow", and
              \* "again" for a cancel after the cancel that removed it,
              \* "catchup" for a job ptb gave a catch-up timer at restart,
              \* "rrule" for a change of the repeat rule
  outcome,    \* what the step just taken put out: how a create request ended,
              \* "DeliveryFailed" for a reminder that was not delivered,
              \* "ChatRemoved" for a chat taken off the list, else "none"
  direct,     \* reminders the create handler sent at once
  paysig,     \* ptb: job id -> signature in the payload of the id's timers
  probe,      \* the last application of a pure function or the last call of a
              \* component: name, argument, result
  known_chats,\* the list of known chats kept in TARGETS_PATH
  recent_signatures, \* ptb: the dedup guard as the deque it is, oldest first
  loop_time,  \* ptb: the time of the event loop, seconds
  callback_locks, \* ptb: bot_data["callback_locks"], message -> expiry (0: no lock)
  idempotency,\* ptb: bot_data["idempotency"], key -> entry (NoEntry: none)
  callbacks,  \* ptb: n -> the n-th callback query and how far on_callback is with it
  pending_reminders, \* aiogram: the tokens under STATE_PENDING in the user's FSM data
  issued,     \* aiogram: the tokens _pick_target_for_private has issued
  creates,    \* aiogram: token -> runs of schedule_reminder started for it
  send_queue, \* ptb: bot_data["send_queue"], the reminders put and not yet taken
  deliver_tasks, \* ptb: reminder -> _deliver tasks of the queue worker alive for it
  send_log,   \* ptb: reminder -> whether it was put, the times it was taken off
              \* the queue, the deliveries that ended, the failures logged
  calls       \* calls of a component so far

run_vars == <<now, phase, engine, store, sched, tasks, confirms, sigs, attempts,
              nextId, debounced, ticks, shifts, kind, ops, bare,
              outcome, direct, paysig>>
send_vars == <<send_queue, deliver_tasks, send_log>>
cb_vars == <<loop_time, callback_locks, idempotency, callbacks>>
pick_vars == <<pending_reminders, issued, creates>>
comp_vars == <<known_chats, recent_signatures, send_vars, cb_vars, pick_vars, calls>>
vars == <<run_vars, probe, comp_vars>>

\* ------------------------------------------------------------- helpers
Min(S) == CHOOSE x \in S : \A y \in S : x <= y
Abs(x) == IF x < 0 THEN -x ELSE x

\* _is_admin (aiogram), is_admin (ptb)
is_admin(u) == u \in ADMIN_USERNAMES

\* the meeting instant written in a text, in the year the process started
MeetAt(t) == IF t = "t1" THEN Now0 + 2400 ELSE Now0 + 2 * Day

\* a parser that takes every line for a meeting line
parse_any_line(t, tnow) == IF MeetAt(t) <= tnow THEN MeetAt(t) + Year ELSE MeetAt(t)

\* parse_meeting_message: None (-1) when the line does not match, else the
\* meeting instant, moved to next year when it is not after now
parse_meeting_message(t, tnow) ==
  IF t \notin Texts THEN -1
  ELSE IF MeetAt(t) <= tnow THEN MeetAt(t) + Year ELSE MeetAt(t)

\* a fire time that takes no lead
apply_no_offset(dt, minutes) == dt

\* _apply_offset
apply_offset(dt, minutes) == dt - 60 * minutes

\* storage.get_offset_for_chat with no offset configured for the chat
get_offset_for_chat(c) == DEFAULT_OFFSET_MINUTES

\* job.get("rrule", RR_ONCE)
RruleOf(rec) == IF rec.rrule = "absent" THEN RR_ONCE ELSE rec.rrule

\* storage.get_job_record / _get_job
get_job(st, j) == st[j]

\* storage.remove_job_record
remove_job_record(st, j) == [st EXCEPT ![j] = NoRec]

\* scheduler.remove_job(job_id), JobLookupError suppressed
sched_remove_job(s, j) == [s EXCEPT ![j] = NoTimer]

\* _schedule_job: add_job(..., id=job_id, replace_existing=True)
schedule_job(s, j, t) == [s EXCEPT ![j] = {t}]

\* storage.upsert_job_record(job_id, {"run_at_utc": t}): a missing row is
\* created from {"job_id": job_id}
upsert_run_at(st, j, t) == [st EXCEPT ![j] = [st[j] EXCEPT !.run_at = t]]

\* make_signature(chat_id, canonical_full, dt_local)
make_signature(c, t, dt) == <<c, t, dt>>

\* storage.find_job_by_text
find_job_by_text(st, t) == \E j \in JobIds : st[j] # NoRec /\ st[j].text = t

TaskOf(j, pc, job, src) == [id |-> j, pc |-> pc, job |-> job, src |-> src]
Alive == BagToSet(tasks)
AliveFor(j) == {h \in Alive : h.id = j}
Quiet == Alive = {} /\ confirms = {}

\* ------------------------------------------------------------ initial state
\* The reminders table survives the process.  At start it is empty or holds
\* one reminder written by an earlier run of the ptb engine, which is the
\* one that sets daily / weekly: its text, its signature, the ids of its
\* confirmation message, and the fire time computed from the text and the
\* offset of its chat.
PersistedRec(rr) ==
  [text |-> "t1", run_at |-> apply_offset(MeetAt("t1"), DEFAULT_OFFSET_MINUTES),
   rrule |-> rr, author |-> "own", chat |-> "c1", offset |-> -1,
   signature |-> make_signature("c1", "t1", MeetAt("t1")), confirmed |-> TRUE]

\* ... or one reminder written by an earlier run of the aiogram engine, when
\* the offset of its chat was o minutes: the row keeps offset_minutes
PersistedShort(o) ==
  [text |-> "t1", run_at |-> apply_offset(MeetAt("t1"), o),
   rrule |-> RR_ONCE, author |-> "own", chat |-> "c1", offset |-> o,
   signature |-> <<"c1", "t1">>, confirmed |-> FALSE]

Init ==
  /\ now = Now0
  /\ phase = "boot"
  /\ engine \in Engines
  /\ \/ \E rr \in {"none", RR_ONCE, RR_DAILY, RR_WEEKLY} :
          /\ store = [j \in JobIds |-> IF j = 1 /\ rr # "none" THEN PersistedRec(rr) ELSE NoRec]
          /\ kind = [j \in JobIds |-> IF j = 1 THEN rr ELSE "none"]
          /\ nextId = IF rr = "none" THEN 1 ELSE 2
     \/ \E o \in Offsets :
          /\ store = [j \in JobIds |-> IF j = 1 THEN PersistedShort(o) ELSE NoRec]
          /\ kind = [j \in JobIds |-> IF j = 1 THEN RR_ONCE ELSE "none"]
          /\ nextId = 2
  /\ outcome = "none"
  /\ direct = 0
  /\ paysig = [j \in JobIds |-> <<>>]
  /\ sched = [j \in JobIds |-> NoTimer]
  /\ tasks = EmptyBag
  /\ confirms = {}
  /\ sigs = {}
  /\ attempts = [j \in JobIds |-> 0]
  /\ debounced = {}
  /\ ticks = 0
  /\ shifts = [j \in JobIds |-> 0]
  /\ ops = [j \in JobIds |-> {}]
  /\ bare = {}
  /\ probe = Idle
  /\ known_chats = <<>>
  /\ recent_signatures = <<>>
  /\ send_queue = <<>>
  /\ pending_reminders = {}
  /\ issued = {}
  /\ creates = [token \in Tokens |-> 0]
  /\ loop_time = 0
  /\ callback_locks = [k \in Messages |-> 0]
  /\ idempotency = [k \in IdemKeys |-> NoEntry]
  /\ callbacks = [n \in Queries |-> NoQuery]
  /\ deliver_tasks = [n \in Reminders |-> 0]
  /\ send_log = [n \in Reminders |-> NotPut]
  /\ calls = 0

\* --------------------------------------------------------- restart recovery
\* _sync_job_schedule: the offset the job is synchronised with
sync_offset(rec) ==
  IF rec.offset = -1
    THEN (IF rec.chat = "none" THEN DEFAULT_OFFSET_MINUTES ELSE get_offset_for_chat(rec.chat))
    ELSE rec.offset

\* _sync_job_schedule: the run date it returns (and persists when it changed)
sync_run_at(rec, tnow) ==
  LET parsed  == parse_meeting_message(rec.text, tnow)
      desired == IF parsed = -1 THEN rec.run_at ELSE apply_offset(parsed, sync_offset(rec))
  IN  IF Abs(desired - rec.run_at) >= SYNC_TOLERANCE_SECONDS THEN desired ELSE rec.run_at

\* _sync_job_schedule: the row afterwards; a row without run_at_utc is left alone
sync_job_schedule(rec, tnow) ==
  IF rec.run_at = -1 THEN rec
  ELSE [rec EXCEPT !.offset = sync_offset(rec), !.run_at = sync_run_at(rec, tnow)]

\* restore_jobs (both engines): what is done with a job whose run date is t
restore_choice(t, tnow) ==
  IF t = -1 THEN "skip"
  ELSE IF t - tnow <= 0 /\ t - tnow >= -CATCHUP_WINDOW_SECONDS THEN "catchup"
  ELSE IF t - tnow > 0 THEN "schedule"
  ELSE "skip"

\* aiogram on_startup: scheduler.start(); restore_jobs()
Startup ==
  /\ phase = "boot"
  /\ engine = "aiogram"
  /\ phase' = "run"
  /\ LET live    == {j \in JobIds : store[j] # NoRec}
         synced  == [j \in JobIds |-> IF j \in live THEN sync_job_schedule(store[j], now) ELSE NoRec]
         choice  == [j \in JobIds |-> IF j \in live THEN restore_choice(synced[j].run_at, now) ELSE "skip"]
     IN  /\ store' = synced
         /\ sched' = [j \in JobIds |-> IF choice[j] = "schedule" THEN {synced[j].run_at} ELSE sched[j]]
         /\ tasks' = tasks (+) SetToBag({TaskOf(j, "start", NoRec, "catchup") : j \in {i \in live : choice[i] = "catchup"}})
  /\ outcome' = "none"
  /\ UNCHANGED <<now, engine, confirms, sigs, attempts, nextId, debounced, ticks, shifts, kind, ops, bare, direct, paysig, probe, comp_vars>>

\* ptb restore_jobs, run from main(): a job in the catch-up window gets a
\* timer one second ahead, a future job a timer at its run date, and only
\* the future jobs are written back by set_jobs_store(kept)
LegacyStartup ==
  /\ phase = "boot"
  /\ engine = "ptb"
  /\ phase' = "run"
  /\ LET choice == [j \in JobIds |-> IF store[j] = NoRec THEN "skip"
                                     ELSE restore_choice(store[j].run_at, now)]
     IN  /\ store' = [j \in JobIds |-> IF choice[j] = "schedule" THEN store[j] ELSE NoRec]
         /\ sched' = [j \in JobIds |-> IF choice[j] = "schedule" THEN {store[j].run_at}
                                       ELSE IF choice[j] = "catchup" THEN {now + 1}
                                       ELSE sched[j]]
         /\ bare' = {j \in JobIds : choice[j] \in {"schedule", "catchup"}}
         /\ ops' = [j \in JobIds |-> IF choice[j] = "catchup" THEN ops[j] \cup {"catchup"} ELSE ops[j]]
  /\ outcome' = "none"
  /\ UNCHANGED <<now, engine, tasks, confirms, sigs, attempts, nextId, debounced, ticks, shifts, kind, direct, paysig, probe, comp_vars>>

\* The process stops (scheduler.shutdown, memory lost) and stays down for dt;
\* taken only when no handler is alive
Shutdown(dt) ==
  /\ phase = "run"
  /\ Quiet
  /\ ticks < MaxTicks
  /\ phase' = "boot"
  /\ sched' = [j \in JobIds |-> NoTimer]
  /\ sigs' = {}
  /\ bare' = {}
  /\ paysig' = [j \in JobIds |-> <<>>]
  /\ now' = now + dt
  /\ ticks' = ticks + 1
  /\ debounced' = {}
  /\ outcome' = "none"
  /\ UNCHANGED <<engine, store, tasks, confirms, attempts, nextId, shifts, kind, ops, direct, probe, comp_vars>>

\* ----------------------------------------------------------------- clock
Timers == UNION {sched[j] : j \in JobIds}

\* Time passes; a pending timer is dispatched at its run date, so the clock
\* never steps over one.
Tick(d) ==
  /\ phase = "run"
  /\ ticks < MaxTicks
  /\ \A t \in Timers : now + d <= t
  /\ now' = now + d
  /\ ticks' = ticks + 1
  /\ debounced' = {}
  /\ outcome' = "none"
  /\ UNCHANGED <<phase, engine, store, sched, tasks, confirms, sigs, attempts, nextId, shifts, kind, ops, bare, direct, paysig, probe, comp_vars>>

\* Time passes up to the run date of the next timer; a handler that was
\* dispatched has started by then.
AdvanceToTimer ==
  /\ phase = "run"
  /\ ticks < MaxTicks
  /\ \A h \in Alive : h.pc # "start"
  /\ Timers # {}
  /\ Min(Timers) > now
  /\ now' = Min(Timers)
  /\ ticks' = ticks + 1
  /\ debounced' = {}
  /\ outcome' = "none"
  /\ UNCHANGED <<phase, engine, store, sched, tasks, confirms, sigs, attempts, nextId, shifts, kind, ops, bare, direct, paysig, probe, comp_vars>>

\* The scheduler dispatches a due timer of job j: a date timer leaves the
\* scheduler and the fire handler is started as a task.
TimerDue(j) ==
  /\ phase = "run"
  /\ BagCardinality(tasks) < MaxTasks
  /\ \E t \in sched[j] :
       /\ t <= now
       /\ sched' = [sched EXCEPT ![j] = @ \ {t}]
       /\ bare' = IF sched[j] = {t} THEN bare \ {j} ELSE bare
  /\ tasks' = tasks (+) SetToBag({TaskOf(j, "start", NoRec, "timer")})
  /\ outcome' = "none"
  /\ UNCHANGED <<now, phase, engine, store, confirms, sigs, attempts, nextId, debounced, ticks, shifts, kind, ops, direct, paysig, probe, comp_vars>>

\* ------------------------------------------------------------ aiogram engine
\* a schedule_reminder without the comparison of the fire time with now
schedule_outcome_never_immediate(st, t, c, tnow) ==
  IF parse_meeting_message(t, tnow) = -1 THEN "FormatError"
  ELSE IF find_job_by_text(st, t) THEN "Duplicate"
  ELSE "Scheduled"

\* schedule_reminder: how the request ends -- the parse, then the duplicate
\* check by text alone, then the comparison of the fire time with now
schedule_outcome(st, t, c, tnow) ==
  LET parsed   == parse_meeting_message(t, tnow)
      reminder == apply_offset(parsed, get_offset_for_chat(c))
  IN  IF parsed = -1 THEN "FormatError"
      ELSE IF find_job_by_text(st, t) THEN "Duplicate"
      ELSE IF reminder <= tnow THEN "SentImmediately"
      ELSE "Scheduled"

\* schedule_reminder, called by the text handlers
Create(u, t, c) ==
  /\ phase = "run"
  /\ engine = "aiogram"
  /\ LET parsed   == parse_meeting_message(t, now)
         offset   == get_offset_for_chat(c)
         reminder == apply_offset(parsed, offset)
         out      == schedule_outcome(store, t, c, now)
     IN  /\ outcome' = out
         /\ IF out = "Scheduled" THEN
              /\ nextId <= MaxCreates
              /\ sched' = schedule_job(sched, nextId, reminder)
              /\ store' = [store EXCEPT ![nextId] =
                             [text |-> t, run_at |-> reminder, rrule |-> RR_ONCE,
                              author |-> u, chat |-> c, offset |-> offset,
                              signature |-> <<c, t>>, confirmed |-> FALSE]]
              /\ kind' = [kind EXCEPT ![nextId] = RR_ONCE]
              /\ nextId' = nextId + 1
              /\ UNCHANGED direct
            ELSE IF out = "SentImmediately" THEN
              \* await _send_safe(...): sent at once, nothing is persisted
              /\ direct < MaxDirect
              /\ direct' = direct + 1
              /\ UNCHANGED <<store, sched, nextId, kind>>
            ELSE
              /\ UNCHANGED <<store, sched, nextId, kind, direct>>
  /\ UNCHANGED <<now, phase, engine, tasks, confirms, sigs, attempts, debounced, ticks, shifts, ops, bare, paysig, probe, comp_vars>>

\* _remove_job
remove_job_store(st, j) == remove_job_record(st, j)
\* a _remove_job that leaves the timer in the scheduler
remove_job_sched_keeps_timer(s, j) == s

remove_job_sched(s, j) == sched_remove_job(s, j)

\* send_reminder_job: "if not job: return" -- whether the handler goes on to send
handler_sends(rec) == rec # NoRec

\* a next run counted from the instant the handler runs
next_run_from_now(run_at, rrule, tnow) ==
  IF rrule = RR_DAILY THEN tnow + Day ELSE tnow + Week

\* send_reminder_job: the next run of a repeating job, counted from the
\* run date of the loaded row (from now when the row has none)
next_run(run_at, rrule, tnow) ==
  LET base == IF run_at = -1 THEN tnow ELSE run_at
  IN  IF rrule = RR_DAILY THEN base + Day ELSE base + Week

\* send_reminder_job up to the await of _send_safe: load the row, return
\* when it is missing, otherwise start the send
FireLoad(h) ==
  /\ phase = "run"
  /\ engine = "aiogram"
  /\ h \in Alive
  /\ h.pc = "start"
  /\ LET job == get_job(store, h.id)
     IN  IF handler_sends(job) THEN
           /\ attempts[h.id] < MaxSends
           /\ attempts' = [attempts EXCEPT ![h.id] = @ + 1]
           /\ tasks' = (tasks (-) SetToBag({h})) (+) SetToBag({TaskOf(h.id, "sending", job, h.src)})
         ELSE
           /\ tasks' = tasks (-) SetToBag({h})
           /\ UNCHANGED attempts
  /\ outcome' = "none"
  /\ UNCHANGED <<now, phase, engine, store, sched, confirms, sigs, nextId, debounced, ticks, shifts, kind, ops, bare, direct, paysig, probe, comp_vars>>

\* _telegram_call: how the call ends when the Telegram request ends with res
\* on every attempt -- a rate limit sleeps and tries again until the attempts
\* are used up, a bad request goes to its handler or is swallowed, a network
\* error and any other exception are logged
telegram_call(res, has_handler, swallow_bad_request, raise_on_failure) ==
  IF res = "ok" THEN "returned"
  ELSE IF res = "rate_limit" THEN "returned"
  ELSE IF res = "bad_request"
    THEN (IF has_handler \/ swallow_bad_request THEN "returned" ELSE "raised")
  ELSE IF raise_on_failure THEN "raised" ELSE "returned"

\* a _send_safe that lets a failed delivery propagate
send_safe_raising(res) == telegram_call(res, FALSE, FALSE, TRUE)

\* _send_safe: _telegram_call with a bad-request handler, swallow_bad_request
\* and the default raise_on_failure=False
send_safe(res) == telegram_call(res, TRUE, TRUE, FALSE)

\* send_reminder_job after the send ended with res: the bookkeeping, done
\* on the row that was loaded before the send; none when the send raised
FireFinish(h, res) ==
  /\ phase = "run"
  /\ engine = "aiogram"
  /\ h \in Alive
  /\ h.pc = "sending"
  /\ tasks' = tasks (-) SetToBag({h})
  /\ outcome' = IF res = "ok" THEN "none" ELSE "DeliveryFailed"
  /\ LET rrule == RruleOf(h.job)
         nxt   == next_run(h.job.run_at, rrule, now)
     IN  IF send_safe(res) = "raised" THEN
           /\ UNCHANGED <<store, sched>>
         ELSE IF rrule \in {RR_DAILY, RR_WEEKLY} THEN
           \* _update_job_time
           /\ store' = upsert_run_at(store, h.id, nxt)
           /\ sched' = schedule_job(sched, h.id, nxt)
         ELSE
           /\ store' = remove_job_store(store, h.id)
           /\ sched' = remove_job_sched(sched, h.id)
  /\ UNCHANGED <<now, phase, engine, confirms, sigs, attempts, nextId, debounced, ticks, shifts, kind, ops, bare, direct, paysig, probe, comp_vars>>

\* on_callback: _debounce(user.id) lets one callback per user through at an instant
Accepted(u) == u \notin debounced

\* CB_SENDNOW: await send_reminder_job(job_id=job_id)
SendNow(u, j) ==
  /\ phase = "run"
  /\ engine = "aiogram"
  /\ Accepted(u)
  /\ debounced' = debounced \cup {u}
  /\ LET job == get_job(store, j)
     IN  IF handler_sends(job) THEN
           /\ BagCardinality(tasks) < MaxTasks
           /\ attempts[j] < MaxSends
           /\ attempts' = [attempts EXCEPT ![j] = @ + 1]
           /\ tasks' = tasks (+) SetToBag({TaskOf(j, "sending", job, "sendnow")})
           /\ ops' = [ops EXCEPT ![j] = @ \cup {"sendnow"}]
         ELSE
           /\ UNCHANGED <<attempts, tasks, ops>>
  /\ outcome' = "none"
  /\ UNCHANGED <<now, phase, engine, store, sched, confirms, sigs, nextId, ticks, shifts, kind, bare, direct, paysig, probe, comp_vars>>

\* CB_CANCEL: job = _get_job(job_id); _remove_job(job_id)
Cancel(u, j) ==
  /\ phase = "run"
  /\ engine = "aiogram"
  /\ Accepted(u)
  /\ debounced' = debounced \cup {u}
  /\ store' = remove_job_store(store, j)
  /\ sched' = remove_job_sched(sched, j)
  /\ ops' = [ops EXCEPT ![j] = IF get_job(store, j) # NoRec THEN @ \cup {"cancel"}
                                ELSE IF "cancel" \in @ THEN @ \cup {"again"} ELSE @]
  /\ outcome' = "none"
  /\ UNCHANGED <<now, phase, engine, tasks, confirms, sigs, attempts, nextId, ticks, shifts, kind, bare, direct, paysig, probe, comp_vars>>

\* CB_SHIFT: the new run date, counted from the run date of the loaded row
\* (from now when the row has none)
shifted_run(run_at, minutes, tnow) ==
  LET base == IF run_at = -1 THEN tnow ELSE run_at
  IN  base + 60 * minutes

\* CB_SHIFT: load the job, _update_job_time(job, run_at + minutes)
Shift(u, j, m) ==
  /\ phase = "run"
  /\ engine = "aiogram"
  /\ Accepted(u)
  /\ debounced' = debounced \cup {u}
  /\ LET job == get_job(store, j)
         new_run == shifted_run(job.run_at, m, now)
     IN  IF job = NoRec THEN
           /\ UNCHANGED <<store, sched, shifts>>
         ELSE
           /\ shifts[j] < MaxShifts
           /\ store' = upsert_run_at(store, j, new_run)
           /\ sched' = schedule_job(sched, j, new_run)
           /\ shifts' = [shifts EXCEPT ![j] = @ + 1]
  /\ outcome' = "none"
  /\ UNCHANGED <<now, phase, engine, tasks, confirms, sigs, attempts, nextId, ticks, kind, ops, bare, direct, paysig, probe, comp_vars>>

\* cmd_purge: administrators only; set_jobs_store([]), scheduler.remove_all_jobs()
Purge(u) ==
  /\ phase = "run"
  /\ engine = "aiogram"
  /\ IF is_admin(u) THEN
       /\ store' = [j \in JobIds |-> NoRec]
       /\ sched' = [j \in JobIds |-> NoTimer]
     ELSE
       /\ UNCHANGED <<store, sched>>
  /\ outcome' = "none"
  /\ UNCHANGED <<now, phase, engine, tasks, confirms, sigs, attempts, nextId, debounced, ticks, shifts, kind, ops, bare, direct, paysig, probe, comp_vars>>

\* storage.unregister_chat: the reminders table afterwards -- the chat leaves
\* the list of registered chats (chats.json), the table is not touched
unregister_chat(st, c) == st

\* CB_CHAT_DEL: administrators only; storage.unregister_chat, then the list
\* of chats is shown again
ChatDel(u, c) ==
  /\ phase = "run"
  /\ engine = "aiogram"
  /\ Accepted(u)
  /\ debounced' = debounced \cup {u}
  /\ store' = IF is_admin(u) THEN unregister_chat(store, c) ELSE store
  /\ outcome' = "none"
  /\ UNCHANGED <<now, phase, engine, sched, tasks, confirms, sigs, attempts, nextId, ticks, shifts, kind, ops, bare, direct, paysig, probe, comp_vars>>

\* CB_RRULE: the callback is answered "Повторы пока недоступны"
Rrule(u, j) ==
  /\ phase = "run"
  /\ engine = "aiogram"
  /\ Accepted(u)
  /\ debounced' = debounced \cup {u}
  /\ outcome' = "none"
  /\ UNCHANGED <<now, phase, engine, store, sched, tasks, confirms, sigs, attempts, nextId, ticks, shifts, kind, ops, bare, direct, paysig, probe, comp_vars>>

\* ---------------------------------------------------------------- ptb engine
\* job_queue.run_once(..., name=job_id): one more timer carrying the job id
run_once(s, j, t) == [s EXCEPT ![j] = @ \cup {t}]

\* jobs = get_jobs_by_name(job_id); if jobs: jobs[0].schedule_removal() --
\* the scheduler lists its jobs by next run time
remove_first_timer(s, j) == [s EXCEPT ![j] = IF @ = {} THEN {} ELSE @ \ {Min(@)}]

\* dedup_should_skip: the signature is in the window (it is appended otherwise)
dedup_should_skip(window, sig) == sig \in window

\* release_signature; a row without a signature releases nothing
release_signature(window, sig) == window \ {sig}

\* _rrule_next_iso: None (-1) for a one-shot job or a row without run date
rrule_next_iso(run_at, rrule) ==
  IF run_at = -1 \/ rrule = RR_ONCE THEN -1
  ELSE IF rrule = RR_DAILY THEN run_at + Day
  ELSE IF rrule = RR_WEEKLY THEN run_at + Week
  ELSE -1

\* send_reminder, "if job_id:" -- the bookkeeping after the put on the send
\* queue, on the row as it is in the store now: the table afterwards
reminder_store(st, j, tnow) ==
  LET rec == get_job(st, j)
      nxt == rrule_next_iso(rec.run_at, RruleOf(rec))
  IN  IF rec # NoRec /\ nxt # -1 THEN upsert_run_at(st, j, nxt)
      ELSE remove_job_record(st, j)

\* ... the scheduler afterwards: a repeating job gets a timer for its next
\* run, one second ahead when that is already past
reminder_sched(s, st, j, tnow) ==
  LET rec == get_job(st, j)
      nxt == rrule_next_iso(rec.run_at, RruleOf(rec))
  IN  IF rec # NoRec /\ nxt # -1
        THEN run_once(s, j, IF nxt - tnow < 0 THEN tnow + 1 ELSE nxt)
        ELSE s

\* ... the dedup window afterwards: the signature of a finished job is released
reminder_sigs(window, st, j) ==
  LET rec == get_job(st, j)
      nxt == rrule_next_iso(rec.run_at, RruleOf(rec))
  IN  IF rec # NoRec /\ nxt = -1 THEN release_signature(window, rec.signature)
      ELSE window

\* ... the payloads afterwards: the timer of the next run carries no signature
reminder_paysig(ps, s, st, j) ==
  LET rec == get_job(st, j)
      nxt == rrule_next_iso(rec.run_at, RruleOf(rec))
  IN  IF rec # NoRec /\ nxt # -1 /\ s[j] = {} THEN [ps EXCEPT ![j] = <<>>] ELSE ps

\* send_reminder started by a timer: the text of the timer's payload is put
\* on the send queue whatever the store holds, then the bookkeeping; the
\* queue worker delivers later, and res is what comes of that
LegacySendReminder(h, res) ==
  /\ phase = "run"
  /\ engine = "ptb"
  /\ h \in Alive
  /\ h.pc = "start"
  /\ attempts[h.id] < MaxSends
  /\ attempts' = [attempts EXCEPT ![h.id] = @ + 1]
  /\ outcome' = IF res = "ok" THEN "none" ELSE "DeliveryFailed"
  /\ tasks' = tasks (-) SetToBag({h})
  /\ store' = reminder_store(store, h.id, now)
  /\ sched' = reminder_sched(sched, store, h.id, now)
  /\ sigs'  = reminder_sigs(sigs, store, h.id)
  /\ paysig' = reminder_paysig(paysig, sched, store, h.id)
  /\ UNCHANGED <<now, phase, engine, confirms, nextId, debounced, ticks, shifts, kind, ops, bare, direct, probe, comp_vars>>

\* an access check that does not ask for the row
may_manage_without_row(u, rec) == is_admin(u) \/ rec.author = u

\* _handle_callback_body, CB_SENDNOW / CB_CANCEL: "rec and (is_admin(user) or
\* rec.get('author_id') == uid)"
may_manage(u, rec) == rec # NoRec /\ (is_admin(u) \/ rec.author = u)

\* CB_SHIFT: "if not is_admin(user)" refuses
may_shift(u) == is_admin(u)

\* send_reminder: "if chat_id and text" -- the payload can be sent
payload_sendable(rec) == rec.text # "none"

\* CB_SENDNOW confirmed (":y"): the first timer is removed, then
\* send_reminder runs on the stored row
LegacySendNow(u, j) ==
  /\ phase = "run"
  /\ engine = "ptb"
  /\ LET rec == get_job(store, j)
     IN  IF may_manage(u, rec) THEN
           /\ attempts[j] < MaxSends
           /\ "rrule" \notin ops[j]
           /\ attempts' = [attempts EXCEPT ![j] = IF payload_sendable(rec) THEN @ + 1 ELSE @]
           /\ store' = reminder_store(store, j, now)
           /\ sched' = reminder_sched(remove_first_timer(sched, j), store, j, now)
           /\ sigs'  = reminder_sigs(sigs, store, j)
           /\ paysig' = reminder_paysig(paysig, remove_first_timer(sched, j), store, j)
           /\ ops' = [ops EXCEPT ![j] = @ \cup {"sendnow"}]
           /\ bare' = bare \ {j}
         ELSE
           /\ UNCHANGED <<attempts, store, sched, sigs, ops, bare, paysig>>
  /\ outcome' = "none"
  /\ UNCHANGED <<now, phase, engine, tasks, confirms, nextId, debounced, ticks, shifts, kind, direct, probe, comp_vars>>

\* CB_CANCEL confirmed (":y")
LegacyCancel(u, j) ==
  /\ phase = "run"
  /\ engine = "ptb"
  /\ LET rec == get_job(store, j)
     IN  IF may_manage(u, rec) THEN
           /\ sched' = remove_first_timer(sched, j)
           /\ sigs' = release_signature(sigs, rec.signature)
           /\ store' = remove_job_record(store, j)
           /\ ops' = [ops EXCEPT ![j] = @ \cup {"cancel"}]
           /\ bare' = bare \ {j}
         ELSE
           \* refused: no row, or neither author nor administrator
           /\ ops' = [ops EXCEPT ![j] = IF rec = NoRec /\ "cancel" \in @ THEN @ \cup {"again"} ELSE @]
           /\ UNCHANGED <<store, sched, sigs, bare>>
  /\ outcome' = "none"
  /\ UNCHANGED <<now, phase, engine, tasks, confirms, attempts, nextId, debounced, ticks, shifts, kind, direct, paysig, probe, comp_vars>>

\* CB_CHAT_DEL: administrators only; unregister_chat and the menu of chats
\* with "Чат удалён"
LegacyChatDel(u, c) ==
  /\ phase = "run"
  /\ engine = "ptb"
  /\ store' = IF is_admin(u) THEN unregister_chat(store, c) ELSE store
  /\ outcome' = IF is_admin(u) THEN "ChatRemoved" ELSE "none"
  /\ UNCHANGED <<now, phase, engine, sched, tasks, confirms, sigs, attempts, nextId, debounced, ticks, shifts, kind, ops, bare, direct, paysig, probe, comp_vars>>

\* CB_RRULE: cycle = {once: daily, daily: weekly, weekly: once}, applied to
\* the rule the pressed button carries
rrule_cycle(current) ==
  IF current = RR_ONCE THEN RR_DAILY
  ELSE IF current = RR_DAILY THEN RR_WEEKLY
  ELSE RR_ONCE

\* the button is on the confirmation message of the job, which carries
\* job_kb when an administrator created the job or shifted it
job_kb_shown(rec, shifted) ==
  rec.confirmed /\ (shifted \/ rec.author \notin Users \ ADMIN_USERNAMES)

\* storage.upsert_job_record(job_id, {"rrule": r})
upsert_rrule(st, j, r) == [st EXCEPT ![j] = [st[j] EXCEPT !.rrule = r]]

\* CB_RRULE: administrators only, the row must exist; the rule after the one
\* on the button is written to the row.  The button is the one job_kb drew
\* last for the job, which shows the stored rule.  The rule of a job is
\* changed before any other callback and before its first send, and the job
\* is not shifted or sent by hand afterwards.
LegacyRrule(u, j, current) ==
  /\ phase = "run"
  /\ engine = "ptb"
  /\ LET rec == get_job(store, j)
     IN  IF is_admin(u) /\ rec # NoRec THEN
           /\ job_kb_shown(rec, shifts[j] > 0)
           /\ Cardinality({i \in JobIds : "rrule" \in ops[i]}) < MaxRrule
           /\ attempts[j] = 0 /\ shifts[j] = 0 /\ ops[j] = {}
           /\ store' = upsert_rrule(store, j, rrule_cycle(current))
           /\ ops' = [ops EXCEPT ![j] = @ \cup {"rrule"}]
         ELSE
           /\ UNCHANGED <<store, ops>>
  /\ outcome' = "none"
  /\ UNCHANGED <<now, phase, engine, sched, tasks, confirms, sigs, attempts, nextId, debounced, ticks, shifts, kind, bare, direct, paysig, probe, comp_vars>>

\* CB_SHIFT: "new_run_at = datetime.now(pytz.utc) + timedelta(minutes=minutes)"
legacy_shifted_run(run_at, minutes, tnow) == tnow + 60 * minutes

\* CB_SHIFT: the author in the payload the new row is built from -- the data
\* of the first timer when there is one (restore_jobs puts no author in it),
\* else the row
payload_author(s, j, rec) == IF s[j] # {} /\ j \in bare THEN "none" ELSE rec.author

\* CB_SHIFT: the signature in that payload -- the one schedule_reminder_core
\* put in the data of the timer; the payload built from the row has none
payload_signature(s, ps, j) == IF s[j] # {} THEN ps[j] ELSE <<>>

\* CB_SHIFT: the first timer is removed, a timer and a row are written under
\* a new job id, the old row is removed
LegacyShift(u, j, m) ==
  /\ phase = "run"
  /\ engine = "ptb"
  /\ LET rec == get_job(store, j)
         new_run == legacy_shifted_run(rec.run_at, m, now)
     IN  IF ~may_shift(u) \/ rec = NoRec THEN
           /\ UNCHANGED <<store, sched, nextId, shifts, kind, bare, paysig>>
         ELSE
           /\ shifts[j] < MaxShifts
           /\ "rrule" \notin ops[j]
           /\ nextId <= MaxJobs
           /\ paysig' = [paysig EXCEPT ![nextId] = payload_signature(sched, paysig, j)]
           /\ sched' = run_once(remove_first_timer(sched, j), nextId, new_run)
           /\ store' = [remove_job_record(store, j) EXCEPT ![nextId] =
                          [text |-> rec.text, run_at |-> new_run, rrule |-> RruleOf(rec),
                           author |-> payload_author(sched, j, rec), chat |-> rec.chat,
                           offset |-> -1, signature |-> payload_signature(sched, paysig, j),
                           confirmed |-> rec.confirmed]]
           /\ nextId' = nextId + 1
           /\ shifts' = [shifts EXCEPT ![j] = @ + 1, ![nextId] = shifts[j] + 1]
           /\ kind' = [kind EXCEPT ![nextId] = kind[j]]
           /\ bare' = bare \ {j}
  /\ outcome' = "none"
  /\ UNCHANGED <<now, phase, engine, tasks, confirms, sigs, attempts, debounced, ticks, ops, direct, probe, comp_vars>>

\* schedule_reminder_core: the run date of the timer and of the row, moved
\* five seconds ahead when it is two seconds away or less
legacy_run_at(reminder, tnow) ==
  IF reminder - tnow <= MIN_DELAY_SECONDS THEN tnow + ADJUSTED_DELAY_SECONDS ELSE reminder

\* schedule_reminder_core: how the request ends -- the parse, the duplicate
\* check by text alone, the dedup window (asked only for a fire time still
\* ahead), then the delay
core_outcome(st, window, t, c, tnow) ==
  LET parsed   == parse_meeting_message(t, tnow)
      reminder == apply_offset(parsed, get_offset_for_chat(c))
      is_past  == reminder <= tnow
      sig      == make_signature(c, t, parsed)
  IN  IF parsed = -1 THEN "FormatError"
      ELSE IF find_job_by_text(st, t) THEN "Duplicate"
      ELSE IF ~is_past /\ dedup_should_skip(window, sig) THEN "DedupSkipped"
      ELSE IF reminder - tnow <= 0 THEN "SentImmediately"
      ELSE "Scheduled"

\* schedule_reminder_core up to the await of the confirmation reply
LegacyCreate(u, t, c) ==
  /\ phase = "run"
  /\ engine = "ptb"
  /\ LET parsed   == parse_meeting_message(t, now)
         offset   == get_offset_for_chat(c)
         reminder == apply_offset(parsed, offset)
         sig      == make_signature(c, t, parsed)
         out      == core_outcome(store, sigs, t, c, now)
     IN  /\ outcome' = out
         /\ IF out = "Scheduled" THEN
              /\ nextId <= MaxCreates
              /\ sigs' = sigs \cup {sig}
              /\ sched' = run_once(sched, nextId, legacy_run_at(reminder, now))
              /\ paysig' = [paysig EXCEPT ![nextId] = sig]
              /\ store' = [store EXCEPT ![nextId] =
                             [text |-> t, run_at |-> legacy_run_at(reminder, now), rrule |-> RR_ONCE,
                              author |-> u, chat |-> c, offset |-> -1,
                              signature |-> sig, confirmed |-> FALSE]]
              /\ confirms' = confirms \cup {nextId}
              /\ kind' = [kind EXCEPT ![nextId] = RR_ONCE]
              /\ nextId' = nextId + 1
              /\ UNCHANGED direct
            ELSE IF out = "SentImmediately" THEN
              \* sent at once; "finally: release_signature(sig)"
              /\ direct < MaxDirect
              /\ direct' = direct + 1
              /\ sigs' = release_signature(sigs, sig)
              /\ UNCHANGED <<store, sched, confirms, nextId, kind, paysig>>
            ELSE
              /\ UNCHANGED <<store, sched, sigs, confirms, nextId, kind, paysig, direct>>
  /\ UNCHANGED <<now, phase, engine, tasks, attempts, debounced, ticks, shifts, ops, bare, probe, comp_vars>>

\* storage.upsert_job_record(job_id, {"confirm_chat_id": .., "confirm_message_id": ..})
upsert_confirm(st, j) == [st EXCEPT ![j] = [st[j] EXCEPT !.confirmed = TRUE]]

\* schedule_reminder_core after the confirmation reply: its ids are written
\* to the row; when the reply failed the handler ends with the exception
LegacyConfirm(j, ok) ==
  /\ phase = "run"
  /\ engine = "ptb"
  /\ j \in confirms
  /\ confirms' = confirms \ {j}
  /\ store' = IF ok THEN upsert_confirm(store, j) ELSE store
  /\ outcome' = "none"
  /\ UNCHANGED <<now, phase, engine, sched, tasks, sigs, attempts, nextId, debounced, ticks, shifts, kind, ops, bare, direct, paysig, probe, comp_vars>>

\* ------------------------------------------------------------ meeting lines
\* A text is a sequence of characters.  The lines tried are put together
\* from pieces: lead day dsep month gap type gap hour tsep minute gap room
\* [gap ticket] trail.
DigitChars == <<"0", "1", "2", "3", "4", "5", "6", "7", "8", "9">>
IsDigit(c) == \E i \in 1..Len(DigitChars) : DigitChars[i] = c
IsSpace(c) == c \in {" ", "\t"}
IsDateSep(c) == c \in {".", "-", "/"}
IsTimeSep(c) == c \in {":", "."}

\* int(s) of a string of decimal digits
py_int(s) ==
  LET val(c) == (CHOOSE i \in 1..Len(DigitChars) : DigitChars[i] = c) - 1
      acc[k \in 0..Len(s)] == IF k = 0 THEN 0 ELSE acc[k - 1] * 10 + val(s[k])
  IN  acc[Len(s)]

\* f"{n:02d}"
fmt02(n) ==
  IF n < 10 THEN <<"0", DigitChars[n + 1]>>
  ELSE <<DigitChars[(n \div 10) + 1], DigitChars[(n % 10) + 1]>>

\* str.strip()
py_strip(s) ==
  LET keep == {i \in 1..Len(s) : ~IsSpace(s[i])}
  IN  IF keep = {} THEN <<>>
      ELSE SubSeq(s, Min(keep), CHOOSE i \in keep : \A k \in keep : k <= i)

\* None as the value of a group that took no part in the match; str(None)
PyNone == <<"None">>
py_str(v) == IF v = PyNone THEN <<"N", "o", "n", "e">> ELSE v

\* membership of a character in a class of MEETING_REGEX: \d, \s or \S
InClass(cls, c) ==
  CASE cls = "d" -> IsDigit(c)
    [] cls = "s" -> IsSpace(c)
    [] cls = "S" -> ~IsSpace(c)

\* first index from i on whose character is not in the class (Len + 1 when
\* the run reaches the end of the text)
RunEnd(s, i, cls) ==
  CHOOSE k \in i..(Len(s) + 1) :
    /\ \A m \in i..(k - 1) : InClass(cls, s[m])
    /\ k = Len(s) + 1 \/ ~InClass(cls, s[k])

NoMatch == [ok |-> FALSE, day_str |-> <<>>, month_str |-> <<>>, mtype |-> <<>>,
            time_str |-> <<>>, room |-> <<>>, ticket |-> <<>>]

\* the ticket group of MEETING_REGEX, (?:\s+(.+?))?\s*$, from position r on:
\* None at the end of the text or before one blank, the last blank when
\* only blanks follow, else the rest without its trailing blanks
ticket_group(s, r) ==
  LET t0 == RunEnd(s, r, "s")
  IN  IF r > Len(s) THEN PyNone
      ELSE IF t0 > Len(s) THEN (IF Len(s) = r THEN PyNone ELSE <<s[Len(s)]>>)
      ELSE SubSeq(s, t0, CHOOSE i \in t0..Len(s) :
                           /\ ~IsSpace(s[i])
                           /\ \A k \in (i + 1)..Len(s) : IsSpace(s[k]))

\* MEETING_REGEX.match(text):
\*   ^\s*(\d{1,2})[.\-/](\d{1,2})\s+(\S+)\s+(\d{1,2}[:.]\d{2})\s+(\S+)(?:\s+(.+?))?\s*$
\* a..r are the positions where the day, its separator, the month, the
\* type, the time, the room and what follows the room begin
MEETING_REGEX_match(s) ==
  LET a == RunEnd(s, 1, "s")
      b == RunEnd(s, a, "d")
      c == RunEnd(s, b + 1, "d")
      d == RunEnd(s, c, "s")
      e == RunEnd(s, d, "S")
      f == RunEnd(s, e, "s")
      g == RunEnd(s, f, "d")
      h == RunEnd(s, g + 3, "s")
      r == RunEnd(s, h, "S")
  IN  IF /\ b - a \in {1, 2} /\ b <= Len(s) /\ IsDateSep(s[b])
         /\ c - (b + 1) \in {1, 2}
         /\ d > c /\ e > d /\ f > e
         /\ g - f \in {1, 2} /\ g + 2 <= Len(s) /\ IsTimeSep(s[g])
         /\ IsDigit(s[g + 1]) /\ IsDigit(s[g + 2])
         /\ h > g + 3 /\ r > h
      THEN [ok |-> TRUE, day_str |-> SubSeq(s, a, b - 1), month_str |-> SubSeq(s, b + 1, c - 1),
            mtype |-> SubSeq(s, d, e - 1), time_str |-> SubSeq(s, f, g + 2),
            room |-> SubSeq(s, h, r - 1), ticket |-> ticket_group(s, r)]
      ELSE NoMatch

\* ------------------------------------------------------------ calendar
\* A datetime is <<year, month, day, hour, minute, second>>.
is_leap(y) == (y % 4 = 0 /\ y % 100 # 0) \/ y % 400 = 0
days_in_month(y, m) ==
  IF m = 2 THEN (IF is_leap(y) THEN 29 ELSE 28)
  ELSE IF m \in {4, 6, 9, 11} THEN 30 ELSE 31

\* datetime(year, month, day, hour, minute) does not raise ValueError
datetime_ok(y, m, d, hh, mm) ==
  /\ m \in 1..12
  /\ d >= 1 /\ d <= days_in_month(y, m)
  /\ hh \in 0..23
  /\ mm \in 0..59

\* a < b and a <= b of two datetimes of one zone
dt_lt(a, b) == \E i \in 1..6 : a[i] < b[i] /\ \A k \in 1..(i - 1) : a[k] = b[k]
\* a comparison that leaves the equal instant out
dt_le_strict(a, b) == dt_lt(a, b)
dt_le(a, b) == a = b \/ dt_lt(a, b)

\* ------------------------------------------------------------ the parsers
\* None; raised names the exception when the call ends with one instead
NoParse == [ok |-> FALSE, raised |-> "none", dt_local |-> <<>>, tz |-> "none", date_str |-> <<>>,
            time_str |-> <<>>, type |-> <<>>, room |-> <<>>, ticket |-> <<>>,
            canonical_full |-> <<>>, reminder_text |-> <<>>]

\* a try block without an except clause
unhandled(exc, classes) == [NoParse EXCEPT !.raised = exc]

\* "except <classes>:" meets the exception exc
caught(exc, classes) == exc \in classes \/ "Exception" \in classes

\* "except <classes>: return None" around a statement that raises exc
handled(exc, classes) ==
  IF caught(exc, classes) THEN NoParse ELSE [NoParse EXCEPT !.raised = exc]

\* the hour and the minute of the time group, cut at the first character of
\* seps; <<>> when there is none (the unpacking of the split raises)
split_time(time_str, seps) ==
  LET at == {i \in 1..Len(time_str) : time_str[i] \in seps}
  IN  IF at = {} THEN <<>>
      ELSE <<SubSeq(time_str, 1, Min(at) - 1), SubSeq(time_str, Min(at) + 1, Len(time_str))>>

\* REMINDER_TEMPLATE = "{date} {type} {time} {room}{ticket}"
REMINDER_TEMPLATE(date, type, time, room, ticket) ==
  date \o <<" ">> \o type \o <<" ">> \o time \o <<" ">> \o room \o ticket

\* core.parsing.parse_meeting_message from "now = datetime.now(tz)" on: the
\* candidate of this year, of the next when it is not after now, the
\* canonical strings
core_parse_numbers(m, day, month, hour, minute, tz, tnow) ==
  LET first    == <<tnow[1], month, day, hour, minute, 0>>
      date_str == fmt02(day) \o <<".">> \o fmt02(month)
      time_str == fmt02(hour) \o <<":">> \o fmt02(minute)
      ticket   == py_strip(IF m.ticket = PyNone THEN <<>> ELSE m.ticket)
  IN  IF ~datetime_ok(tnow[1], month, day, hour, minute)
        THEN handled("ValueError", {"Exception"})
      ELSE IF dt_le(first, tnow) /\ ~datetime_ok(tnow[1] + 1, month, day, hour, minute)
        THEN handled("ValueError", {"Exception"})
      ELSE [ok |-> TRUE, raised |-> "none",
            dt_local |-> IF dt_le(first, tnow) THEN [first EXCEPT ![1] = @ + 1] ELSE first,
            tz |-> tz, date_str |-> date_str, time_str |-> time_str,
            type |-> py_strip(m.mtype), room |-> py_strip(m.room), ticket |-> ticket,
            canonical_full |-> date_str \o <<" ">> \o py_strip(m.mtype) \o <<" ">> \o time_str
                                 \o <<" ">> \o py_strip(m.room)
                                 \o (IF ticket = <<>> THEN <<>> ELSE <<" ">> \o ticket),
            reminder_text |-> REMINDER_TEMPLATE(date_str, py_strip(m.mtype), time_str, py_strip(m.room),
                                                IF ticket = <<>> THEN <<>> ELSE <<" ">> \o ticket)]

\* core.parsing.parse_meeting_message after the match: the numbers of the
\* groups, the time cut at its first ":" or "."
core_parse_groups(m, hm, tz, tnow) ==
  IF hm = <<>> THEN handled("ValueError", {"TypeError", "ValueError"})
  ELSE core_parse_numbers(m, py_int(m.day_str), py_int(m.month_str), py_int(hm[1]), py_int(hm[2]),
                          tz, tnow)

\* core.parsing.parse_meeting_message, the parser of the aiogram engine
core_parse_match(m, tz, tnow) ==
  IF ~m.ok THEN NoParse ELSE core_parse_groups(m, split_time(m.time_str, {":", "."}), tz, tnow)
core_parse_meeting_message(text, tz, tnow) == core_parse_match(MEETING_REGEX_match(text), tz, tnow)

\* bot.main.parse_meeting_message from "now = datetime.now(tz)" on
legacy_parse_numbers(m, d, mth, hh, mm, tz, tnow) ==
  LET first == <<tnow[1], mth, d, hh, mm, 0>>
      rolls == mth < tnow[2] \/ (mth = tnow[2] /\ dt_le(first, tnow))
      date_str      == fmt02(d) \o <<".">> \o fmt02(mth)
      time_str_norm == fmt02(hh) \o <<":">> \o fmt02(mm)
  IN  IF ~datetime_ok(tnow[1], mth, d, hh, mm)
        THEN handled("ValueError", {"ValueError"})
      ELSE IF rolls /\ ~datetime_ok(tnow[1] + 1, mth, d, hh, mm)
        THEN handled("ValueError", {"ValueError"})
      ELSE [ok |-> TRUE, raised |-> "none",
            dt_local |-> IF rolls THEN [first EXCEPT ![1] = @ + 1] ELSE first,
            tz |-> tz, date_str |-> date_str, time_str |-> time_str_norm,
            type |-> m.mtype, room |-> m.room, ticket |-> m.ticket,
            canonical_full |-> date_str \o <<" ">> \o m.mtype \o <<" ">> \o time_str_norm
                                 \o <<" ">> \o m.room \o <<" ">> \o py_str(m.ticket),
            reminder_text |-> REMINDER_TEMPLATE(date_str, m.mtype, time_str_norm, m.room,
                                                py_str(m.ticket))]

\* bot.main.parse_meeting_message after the match: "hh, mm =
\* time_str.split(":")" inside "except Exception: return None"
legacy_parse_groups(m, hm, tz, tnow) ==
  IF hm = <<>> THEN handled("ValueError", {"Exception"})
  ELSE legacy_parse_numbers(m, py_int(m.day_str), py_int(m.month_str), py_int(hm[1]), py_int(hm[2]),
                            tz, tnow)

\* bot.main.parse_meeting_message, the parser of the ptb engine
legacy_parse_match(m, tz, tnow) ==
  IF ~m.ok THEN NoParse ELSE legacy_parse_groups(m, split_time(m.time_str, {":"}), tz, tnow)
legacy_parse_meeting_message(text, tz, tnow) == legacy_parse_match(MEETING_REGEX_match(text), tz, tnow)

\* ------------------------------------------------- inputs of the parsers
\* "08.08 M 20:40 2v"
PlainLine == [lead |-> <<>>, day |-> <<"0", "8">>, dsep |-> <<".">>, month |-> <<"0", "8">>,
              gap |-> <<" ">>, mtype |-> <<"M">>, hour |-> <<"2", "0">>, tsep |-> <<":">>,
              minute |-> <<"4", "0">>, room |-> <<"2", "v">>, ticket |-> <<>>, trail |-> <<>>]

\* the text a line of pieces stands for
LineText(p) ==
  p.lead \o p.day \o p.dsep \o p.month \o p.gap \o p.mtype \o p.gap
    \o p.hour \o p.tsep \o p.minute
    \o (IF p.room = <<>> THEN <<>> ELSE p.gap \o p.room)
    \o (IF p.ticket = <<>> THEN <<>> ELSE p.gap \o p.ticket)
    \o p.trail

\* one meeting written in every way: blanks, separators, one- or two-digit
\* day and month, with and without room and ticket
ShapeLines ==
  {[PlainLine EXCEPT !.lead = l, !.day = dm, !.month = dm, !.dsep = ds, !.gap = g,
                     !.tsep = ts, !.room = rt[1], !.ticket = rt[2], !.trail = tr] :
     l \in {<<>>, <<" ">>}, dm \in {<<"0", "8">>, <<"8">>},
     ds \in {<<".">>, <<"-">>, <<"/">>}, g \in {<<" ">>, <<" ", "\t">>},
     ts \in {<<":">>, <<".">>},
     rt \in {<<<<>>, <<>>>>, <<<<"2", "v">>, <<>>>>, <<<<"2", "v">>, <<"8", "8">>>>},
     tr \in {<<>>, <<" ">>, <<" ", " ">>}}

\* dates and times that do and do not exist
DateLines ==
  {[PlainLine EXCEPT !.day = d, !.month = m, !.hour = h, !.minute = mi] :
     d \in {<<"0", "8">>, <<"2", "9">>, <<"3", "1">>, <<"0">>},
     m \in {<<"2">>, <<"0", "8">>, <<"1", "3">>},
     h \in {<<"9">>, <<"2", "0">>, <<"2", "4">>},
     mi \in {<<"4", "0">>, <<"6", "0">>}}

\* texts that are no meeting line: the empty text, a word, a day of three
\* digits, a minute of one and of three digits, a blank for the date
\* separator, no blanks, no type
JunkLines ==
  LET Empty == [f \in DOMAIN PlainLine |-> <<>>]
  IN  {Empty,
       [Empty EXCEPT !.mtype = <<"h", "e", "l", "l", "o">>],
       [PlainLine EXCEPT !.day = <<"0", "0", "8">>],
       [PlainLine EXCEPT !.minute = <<"4">>],
       [PlainLine EXCEPT !.minute = <<"4", "0", "0">>],
       [PlainLine EXCEPT !.dsep = <<" ">>],
       [PlainLine EXCEPT !.gap = <<>>],
       [PlainLine EXCEPT !.mtype = <<>>]}

Lines == ShapeLines \cup DateLines \cup JunkLines

\* datetime.now(tz): the instant of the tests, the minute of the meeting of
\* PlainLine, one second before and after it, a day before 29 February of
\* a leap year, a year that is not a leap year
Nows == {<<2024, 5, 1, 12, 0, 0>>, <<2024, 8, 8, 20, 40, 0>>, <<2024, 8, 8, 20, 39, 59>>,
         <<2024, 8, 8, 20, 40, 1>>, <<2024, 2, 1, 0, 0, 0>>, <<2023, 5, 1, 12, 0, 0>>}
ParseTz == "Europe/Moscow"

\* ------------------------------------------------- applying the functions
\* parse_meeting_message(text, tz) of the aiogram engine at the instant tnow
CoreParse(p, tnow) ==
  /\ probe = Idle
  /\ probe' = [fn |-> "core_parse", arg |-> [line |-> p, now |-> tnow],
               out |-> core_parse_meeting_message(LineText(p), ParseTz, tnow)]
  /\ UNCHANGED <<run_vars, comp_vars>>

\* parse_meeting_message(text, tz) of the ptb engine at the instant tnow
LegacyParse(p, tnow) ==
  /\ probe = Idle
  /\ probe' = [fn |-> "legacy_parse", arg |-> [line |-> p, now |-> tnow],
               out |-> legacy_parse_meeting_message(LineText(p), ParseTz, tnow)]
  /\ UNCHANGED <<run_vars, comp_vars>>

\* ------------------------------------------------- fire time of a new job
\* An aware datetime is its wall clock, in seconds, and the utcoffset of its
\* zone.  dt.astimezone(timezone.utc)
astimezone_utc(dt) == [wall |-> dt.wall - dt.utcoffset, utcoffset |-> 0]

\* nothing persisted and no timer: the reminder was sent at once
NoJob == [scheduled |-> FALSE, run_at_utc |-> [wall |-> -1, utcoffset |-> 0],
          timer |-> [wall |-> -1, utcoffset |-> 0]]

\* aiogram schedule_reminder: run_at_utc of the row and the run date of the
\* timer of the job made for a meeting at dt_local
new_job_times(dt_local, offset_minutes, now_utc) ==
  LET reminder_local == [dt_local EXCEPT !.wall = apply_offset(@, offset_minutes)]
      reminder_utc   == astimezone_utc(reminder_local)
  IN  IF reminder_utc.wall <= now_utc THEN NoJob
      ELSE [scheduled |-> TRUE, run_at_utc |-> reminder_utc, timer |-> reminder_utc]

\* ptb schedule_reminder_core: the same, with the delay of at most 2 s
\* replaced by 5 s
legacy_new_job_times(dt_local, offset_minutes, now_utc) ==
  LET reminder_dt_local == [dt_local EXCEPT !.wall = apply_offset(@, offset_minutes)]
      reminder_utc      == astimezone_utc(reminder_dt_local)
      adjusted          == [reminder_utc EXCEPT !.wall = legacy_run_at(@, now_utc)]
  IN  IF reminder_utc.wall - now_utc <= 0 THEN NoJob
      ELSE [scheduled |-> TRUE, run_at_utc |-> adjusted, timer |-> adjusted]

\* zones of the chats: UTC and Europe/Moscow
UtcOffsets == {0, 10800}
\* lead offsets of the chats, minutes
LeadOffsets == {0, 2, DEFAULT_OFFSET_MINUTES}
\* seconds from the request to the fire time
Delays == {0, 1, 2, 3, 600}

\* a create request of engine eng for the meeting of text t, written in a
\* zone off seconds ahead of UTC, for a chat with lead offset o, made
\* delay seconds before its fire time
NewJob(eng, t, off, o, delay) ==
  /\ probe = Idle
  /\ LET dt_local == [wall |-> MeetAt(t) + off, utcoffset |-> off]
         now_utc  == apply_offset(MeetAt(t), o) - delay
     IN  probe' = [fn |-> "new_job",
                   arg |-> [engine |-> eng, dt_local |-> dt_local, offset |-> o, now |-> now_utc],
                   out |-> IF eng = "aiogram" THEN new_job_times(dt_local, o, now_utc)
                           ELSE legacy_new_job_times(dt_local, o, now_utc)]
  /\ UNCHANGED <<run_vars, comp_vars>>

\* ------------------------------------------------- lead offset of a chat
\* A value of the chat configuration (config.json): kind says what it is,
\* n is the integer, or the float in tenths, s the string.
CfgAbsent    == [kind |-> "absent", n |-> 0, s |-> <<>>]     \* no such key
CfgNone      == [kind |-> "none", n |-> 0, s |-> <<>>]       \* null
CfgInt(n)    == [kind |-> "int", n |-> n, s |-> <<>>]
CfgFloat(t)  == [kind |-> "float", n |-> t, s |-> <<>>]
CfgStr(s)    == [kind |-> "str", n |-> 0, s |-> s]

\* int(value) of a string: blanks stripped, a sign, decimal digits
int_of_str(s) ==
  LET t      == py_strip(s)
      signed == t # <<>> /\ t[1] \in {"-", "+"}
      digits == IF signed THEN Tail(t) ELSE t
  IN  IF digits = <<>> \/ \E i \in 1..Len(digits) : ~IsDigit(digits[i])
        THEN [exc |-> "ValueError", n |-> 0]
      ELSE [exc |-> "none", n |-> IF signed /\ t[1] = "-" THEN -py_int(digits) ELSE py_int(digits)]

\* int(value): a float is cut towards zero, None raises TypeError
int_of_value(v) ==
  IF v.kind = "int" THEN [exc |-> "none", n |-> v.n]
  ELSE IF v.kind = "float"
    THEN [exc |-> "none", n |-> IF v.n < 0 THEN -((-v.n) \div 10) ELSE v.n \div 10]
  ELSE IF v.kind = "str" THEN int_of_str(v.s)
  ELSE [exc |-> "TypeError", n |-> 0]

\* a normalize_offset that returns the minutes as they are
normalize_offset_unclamped(value, fallback) ==
  IF int_of_value(value).exc # "none" THEN fallback ELSE int_of_value(value).n

\* storage.normalize_offset(value, fallback); every caller gives a fallback
\* that is an integer
normalize_offset(value, fallback) ==
  LET r       == int_of_value(value)
      minutes == IF r.exc # "none" /\ caught(r.exc, {"TypeError", "ValueError"}) THEN fallback ELSE r.n
  IN  IF minutes < 0 THEN 0 ELSE minutes

\* storage.get_offset_for_chat for a chat whose configuration is entry
get_offset_for_entry(entry) ==
  IF entry.offset = CfgAbsent THEN DEFAULT_OFFSET_MINUTES
  ELSE normalize_offset(entry.offset, DEFAULT_OFFSET_MINUTES)

\* what config.json may hold under "offset"
OffsetValues ==
  {CfgAbsent, CfgNone} \cup {CfgInt(n) : n \in {-5, 0, 15, 45}}
    \cup {CfgFloat(t) : t \in {-15, -5, 15}}
    \cup {CfgStr(s) : s \in {<<>>, <<"b", "a", "d">>, <<"1", "5">>, <<" ", "7", " ">>,
                              <<"-", "5">>, <<"1", ".", "5">>}}

\* get_offset_for_chat(chat_id) with the entry of the chat being [offset |-> v]
OffsetFor(v) ==
  /\ probe = Idle
  /\ probe' = [fn |-> "get_offset", arg |-> [offset |-> v], out |-> get_offset_for_entry([offset |-> v])]
  /\ UNCHANGED <<run_vars, comp_vars>>

\* ------------------------------------------------- time zone of a chat
ValidZones   == {"Europe/Moscow", "America/Chicago", "Asia/Tokyo", "UTC"}
InvalidZones == {"Bad/Zone", "Wrong/Zone"}
NoneStr      == "None"           \* the key, or the variable, is not set
LocalFails   == "raises"         \* get_localzone_name() raises
truthy(name) == name \notin {"", NoneStr}

\* a pytz.timezone that knows every name
pytz_timezone_any(name) == [zone |-> name, raised |-> "none"]

\* pytz.timezone(name)
pytz_timezone(name) ==
  IF name \in ValidZones THEN [zone |-> name, raised |-> "none"]
  ELSE [zone |-> "none", raised |-> "UnknownTimeZoneError"]

\* storage.get_org_tz_name with ORG_TZ = env_tz
get_org_tz_name(env_tz, default_tz_name, localzone) ==
  IF truthy(env_tz) THEN env_tz
  ELSE IF truthy(default_tz_name) THEN default_tz_name
  ELSE IF localzone = LocalFails THEN "UTC"
  ELSE localzone

\* storage.resolve_tz_for_chat for a chat whose entry has tz = tz_name
resolve_tz_for_chat(tz_name, env_tz, default_tz_name, localzone) ==
  LET chat_tz  == pytz_timezone(tz_name)
      fallback == pytz_timezone(get_org_tz_name(env_tz, default_tz_name, localzone))
  IN  IF truthy(tz_name) /\ chat_tz.raised = "none" THEN chat_tz
      ELSE IF truthy(tz_name) /\ ~caught(chat_tz.raised, {"Exception"}) THEN chat_tz
      ELSE IF fallback.raised = "none" THEN fallback
      ELSE IF ~caught(fallback.raised, {"Exception"}) THEN fallback
      ELSE [zone |-> "UTC", raised |-> "none"]

\* resolve_tz_for_chat(chat_id) in a process whose environment has ORG_TZ =
\* env_tz, whose DEFAULT_TZ_NAME is default_tz_name and whose host gives
\* localzone
ResolveTz(tz_name, env_tz, default_tz_name, localzone) ==
  /\ probe = Idle
  /\ probe' = [fn |-> "resolve_tz",
               arg |-> [tz |-> tz_name, ORG_TZ |-> env_tz, DEFAULT_TZ_NAME |-> default_tz_name,
                        localzone |-> localzone],
               out |-> resolve_tz_for_chat(tz_name, env_tz, default_tz_name, localzone)]
  /\ UNCHANGED <<run_vars, comp_vars>>

\* ---------------------------------------------------------- known chats
\* An entry of the list is [chat_id, title, topic_id, topic_title].  A chat
\* id is an int (chat.id) or a str (a field of callback data), v being its
\* decimal text; a topic id is an int, -1 for None and for a key the entry
\* lacks; a topic title the entry lacks is NoneStr.
\* str(chat_id), topic_id or 0 -- and str(c.get("chat_id")),
\* int(c.get("topic_id", 0)) for an entry
chat_key(chat_id, topic_id) == <<chat_id.v, IF topic_id = -1 THEN 0 ELSE topic_id>>

\* a register_chat that appends without looking for the pair
register_chat_append(chats, chat_id, title, topic_id, topic_title) ==
  [chats |-> Append(chats, [chat_id |-> chat_id, title |-> title, topic_id |-> topic_id,
                            topic_title |-> topic_title]),
   ret |-> TRUE]

\* register_chat: the list afterwards and the value returned
register_chat(chats, chat_id, title, topic_id, topic_title) ==
  LET hits == {i \in 1..Len(chats) :
                 chat_key(chats[i].chat_id, chats[i].topic_id) = chat_key(chat_id, topic_id)}
      idx  == Min(hits)
      new_entry ==
        [chat_id |-> chats[idx].chat_id,
         title |-> IF truthy(title) THEN title ELSE chats[idx].title,
         topic_id |-> IF topic_id # -1 THEN topic_id ELSE chats[idx].topic_id,
         topic_title |-> IF truthy(topic_title) THEN topic_title ELSE chats[idx].topic_title]
      entry ==
        [chat_id |-> chat_id, title |-> title, topic_id |-> topic_id,
         topic_title |-> IF topic_id # -1 /\ truthy(topic_title) THEN topic_title ELSE NoneStr]
  IN  IF hits # {} THEN [chats |-> [chats EXCEPT ![idx] = new_entry], ret |-> FALSE]
      ELSE [chats |-> Append(chats, entry), ret |-> TRUE]

\* storage.unregister_chat on the list: the entries of another pair stay
unregister_chat_list(chats, chat_id, topic_id) ==
  SelectSeq(chats, LAMBDA c : chat_key(c.chat_id, c.topic_id) # chat_key(chat_id, topic_id))

\* what the handlers pass: chat.id or the chat field of callback data; the
\* thread id of the message, None or the topic field of callback data; the
\* title of the chat, never empty; the name of the topic, or None
ChatIdValues == {[py |-> "int", v |-> "1"], [py |-> "str", v |-> "1"], [py |-> "int", v |-> "2"]}
TopicIdValues == {-1, 0, 5}
TitleValues == {"A", "B"}
TopicTitleValues == {NoneStr, "T", "U"}

RegisterChat(chat_id, title, topic_id, topic_title) ==
  /\ calls < MaxCalls
  /\ calls' = calls + 1
  /\ known_chats' = register_chat(known_chats, chat_id, title, topic_id, topic_title).chats
  /\ probe' = [fn |-> "register_chat", arg |-> <<chat_id, title, topic_id, topic_title>>,
               out |-> register_chat(known_chats, chat_id, title, topic_id, topic_title).ret]
  /\ UNCHANGED <<run_vars, recent_signatures, send_vars, cb_vars, pick_vars>>

UnregisterChat(chat_id, topic_id) ==
  /\ calls < MaxCalls
  /\ calls' = calls + 1
  /\ known_chats' = unregister_chat_list(known_chats, chat_id, topic_id)
  /\ probe' = [fn |-> "unregister_chat", arg |-> <<chat_id, topic_id>>, out |-> NoneStr]
  /\ UNCHANGED <<run_vars, recent_signatures, send_vars, cb_vars, pick_vars>>

\* ----------------------------------------------------------- dedup guard
\* A signature is what make_signature returns; <<>> is None.
\* a deque that grows without limit
deque_append_unbounded(q, x, maxlen) == Append(q, x)

\* deque(maxlen=...).append(x): a full deque drops its leftmost item
deque_append(q, x, maxlen) ==
  IF Len(q) >= maxlen THEN Append(Tail(q), x) ELSE Append(q, x)

\* x in deque
deque_contains(q, x) == \E i \in 1..Len(q) : q[i] = x

\* deque.remove(x): the first occurrence goes (ValueError when there is none)
deque_remove(q, x) ==
  LET i == Min({k \in 1..Len(q) : q[k] = x})
  IN  SubSeq(q, 1, i - 1) \o SubSeq(q, i + 1, Len(q))

\* dedup_should_skip on the deque: the guard afterwards and the value returned
dedup_should_skip_deque(recent, signature) ==
  IF deque_contains(recent, signature) THEN [recent |-> recent, ret |-> TRUE]
  ELSE [recent |-> deque_append(recent, signature, RECENT_MAXLEN), ret |-> FALSE]

\* release_signature on the deque: "if not signature: return", then remove
\* with the ValueError passed over
release_signature_deque(recent, signature) ==
  IF signature = <<>> THEN recent
  ELSE IF deque_contains(recent, signature) THEN deque_remove(recent, signature)
  ELSE recent

\* the signature of the n-th of the create requests that differ
Sig(n) == make_signature("c1", "t1", n)

\* k create requests with signatures of their own ask the guard, one after
\* another, before anything else is called
Requests(k) ==
  /\ calls = 0
  /\ calls' = 1
  /\ LET after[i \in 0..k] ==
           IF i = 0 THEN recent_signatures
           ELSE dedup_should_skip_deque(after[i - 1], Sig(i)).recent
     IN  recent_signatures' = after[k]
  /\ probe' = [fn |-> "requests", arg |-> <<>>, out |-> k]
  /\ UNCHANGED <<run_vars, known_chats, send_vars, cb_vars, pick_vars>>

DedupShouldSkip(signature) ==
  /\ calls < MaxCalls
  /\ calls' = calls + 1
  /\ recent_signatures' = dedup_should_skip_deque(recent_signatures, signature).recent
  /\ probe' = [fn |-> "dedup_should_skip", arg |-> signature,
               out |-> dedup_should_skip_deque(recent_signatures, signature).ret]
  /\ UNCHANGED <<run_vars, known_chats, send_vars, cb_vars, pick_vars>>

ReleaseSignature(signature) ==
  /\ calls < MaxCalls
  /\ calls' = calls + 1
  /\ recent_signatures' = release_signature_deque(recent_signatures, signature)
  /\ probe' = [fn |-> "release_signature", arg |-> signature, out |-> NoneStr]
  /\ UNCHANGED <<run_vars, known_chats, send_vars, cb_vars, pick_vars>>

\* ------------------------------------------------------------- send queue
\* a get that leaves the item on the queue
queue_peek(q) == q

\* asyncio.Queue.get_nowait(): the queue afterwards (the head is returned)
queue_get_nowait(q) == Tail(q)

\* send_reminder: "await queue.put((chat_id, text, topic_id))" -- the n-th
\* reminder a fire handler puts on the queue, which has no maxsize
QueuePut(n) ==
  /\ ~send_log[n].put
  /\ \A k \in Reminders : k < n => send_log[k].put
  /\ send_queue' = Append(send_queue, n)
  /\ send_log' = [send_log EXCEPT ![n].put = TRUE]
  /\ UNCHANGED <<run_vars, probe, known_chats, recent_signatures, cb_vars, pick_vars, deliver_tasks, calls>>

\* process_send_queue, run every SEND_INTERVAL: nothing on an empty queue,
\* else the head is taken and a _deliver task is created for it
ProcessSendQueue ==
  IF send_queue = <<>> THEN UNCHANGED vars
  ELSE /\ send_log[Head(send_queue)].taken < MaxTakes
       /\ send_queue' = queue_get_nowait(send_queue)
       /\ deliver_tasks' = [deliver_tasks EXCEPT ![Head(send_queue)] = @ + 1]
       /\ send_log' = [send_log EXCEPT ![Head(send_queue)].taken = @ + 1]
       /\ UNCHANGED <<run_vars, probe, known_chats, recent_signatures, cb_vars, pick_vars, calls>>

\* _deliver: safe_send_message returned or raised; what it raised is written
\* to the error log, and the task ends either way
Deliver(n, res) ==
  /\ deliver_tasks[n] > 0
  /\ deliver_tasks' = [deliver_tasks EXCEPT ![n] = @ - 1]
  /\ send_log' = [send_log EXCEPT ![n].ended = @ + 1,
                                  ![n].logged = IF res = "raised" THEN @ + 1 ELSE @]
  /\ UNCHANGED <<run_vars, probe, known_chats, recent_signatures, cb_vars, pick_vars, send_queue, calls>>

\* ------------------------------------------------- callback lock, idempotency
\* A query has a message (key None does not occur with inline keyboards).
\* pc of a query: "busy" rejected by the lock; "dup" rejected by the
\* idempotency check, the answer not sent yet; "dup_done" after it; "pre"
\* accepted, the answer and the frozen keyboard not sent yet; "body" while
\* _handle_callback_body runs; "ok", "raised" when it has returned or raised.
\* _cleanup_callback_locks
cleanup_callback_locks(locks, tnow) ==
  [k \in DOMAIN locks |-> IF locks[k] <= tnow THEN 0 ELSE locks[k]]

\* _acquire_callback_lock: the locks afterwards and the value returned
acquire_callback_lock(locks, key, tnow) ==
  IF cleanup_callback_locks(locks, tnow)[key] # 0 /\ cleanup_callback_locks(locks, tnow)[key] > tnow
    THEN [locks |-> cleanup_callback_locks(locks, tnow), ret |-> FALSE]
    ELSE [locks |-> [cleanup_callback_locks(locks, tnow) EXCEPT ![key] = tnow + CALLBACK_LOCK_TTL],
          ret |-> TRUE]

\* _release_callback_lock: locks.pop(key, None)
release_callback_lock(locks, key) == [locks EXCEPT ![key] = 0]

\* _cleanup_idempotency
cleanup_idempotency(st, tnow) ==
  [k \in DOMAIN st |-> IF st[k].expires <= tnow THEN NoEntry ELSE st[k]]

\* _start_idempotent: the entries afterwards and whether the run may start
start_idempotent(st, key, tnow) ==
  IF /\ cleanup_idempotency(st, tnow)[key].status \in {"running", "done"}
     /\ cleanup_idempotency(st, tnow)[key].expires > tnow
    THEN [store |-> cleanup_idempotency(st, tnow), acquired |-> FALSE]
    ELSE [store |-> [cleanup_idempotency(st, tnow) EXCEPT
                       ![key] = [status |-> "running", expires |-> tnow + IDEMPOTENCY_TTL]],
          acquired |-> TRUE]

\* _mark_idempotent_done
mark_idempotent_done(st, key, tnow) ==
  [cleanup_idempotency(st, tnow) EXCEPT ![key] = [status |-> "done", expires |-> tnow + IDEMPOTENCY_TTL]]

\* _reset_idempotent: store.pop(key, None)
reset_idempotent(st, key, tnow) ==
  [cleanup_idempotency(st, tnow) EXCEPT ![key] = NoEntry]

\* the event loop's time moves on
LoopTick ==
  /\ loop_time + ClockStep <= MaxClock
  /\ loop_time' = loop_time + ClockStep
  /\ UNCHANGED <<run_vars, probe, known_chats, recent_signatures, send_vars, pick_vars, callback_locks,
                 idempotency, callbacks, calls>>

\* on_callback up to its first await: the lock, then the idempotency check
OnCallback(n, msg, idem) ==
  /\ callbacks[n] = NoQuery
  /\ \A k \in Queries : k < n => callbacks[k] # NoQuery
  /\ IF ~acquire_callback_lock(callback_locks, msg, loop_time).ret THEN
       /\ callback_locks' = acquire_callback_lock(callback_locks, msg, loop_time).locks
       /\ callbacks' = [callbacks EXCEPT ![n] = [pc |-> "busy", msg |-> msg, idem |-> idem,
                                                at |-> loop_time, ended |-> loop_time]]
       /\ UNCHANGED idempotency
     ELSE
       /\ callback_locks' = acquire_callback_lock(callback_locks, msg, loop_time).locks
       /\ idempotency' = start_idempotent(idempotency, idem, loop_time).store
       /\ callbacks' = [callbacks EXCEPT ![n] =
            [pc |-> IF start_idempotent(idempotency, idem, loop_time).acquired THEN "pre" ELSE "dup",
             msg |-> msg, idem |-> idem, at |-> loop_time, ended |-> -1]]
  /\ UNCHANGED <<run_vars, probe, known_chats, recent_signatures, send_vars, pick_vars, loop_time, calls>>

\* on_callback rejected by the idempotency check, after "await q.answer":
\* _release_callback_lock, return
OnCallbackDup(n) ==
  /\ callbacks[n].pc = "dup"
  /\ callback_locks' = release_callback_lock(callback_locks, callbacks[n].msg)
  /\ callbacks' = [callbacks EXCEPT ![n].pc = "dup_done", ![n].ended = loop_time]
  /\ UNCHANGED <<run_vars, probe, known_chats, recent_signatures, send_vars, pick_vars, loop_time,
                 idempotency, calls>>

\* on_callback accepted, after the answer and freeze_query_markup:
\* create_task(_runner()), which starts _handle_callback_body
RunnerStart(n) ==
  /\ callbacks[n].pc = "pre"
  /\ callbacks' = [callbacks EXCEPT ![n].pc = "body"]
  /\ UNCHANGED <<run_vars, probe, known_chats, recent_signatures, send_vars, pick_vars, loop_time,
                 callback_locks, idempotency, calls>>

\* _runner when _handle_callback_body has returned (done) or raised
\* (reset), and its finally: the lock of the message is released
RunnerEnd(n, res) ==
  /\ callbacks[n].pc = "body"
  /\ idempotency' = IF res = "returned"
                      THEN mark_idempotent_done(idempotency, callbacks[n].idem, loop_time)
                      ELSE reset_idempotent(idempotency, callbacks[n].idem, loop_time)
  /\ callback_locks' = release_callback_lock(callback_locks, callbacks[n].msg)
  /\ callbacks' = [callbacks EXCEPT ![n].pc = IF res = "returned" THEN "ok" ELSE "raised",
                                    ![n].ended = loop_time]
  /\ UNCHANGED <<run_vars, probe, known_chats, recent_signatures, send_vars, pick_vars, loop_time, calls>>

\* ------------------------------------------------- _telegram_call, attempt by attempt
\* how an attempt of the action ends: its result, TelegramRetryAfter,
\* TelegramBadRequest, one of _RETRYABLE_TELEGRAM_ERRORS, any other exception
AttemptResults == {"ok", "rate_limit", "bad_request", "network", "other"}

\* range(1, max(1, retries) + 1): the last attempt
last_attempt(retries) == IF retries < 1 THEN 1 ELSE retries

\* a failure that is always raised again
failure_raised(raise_on_failure) == "raised"

\* "if raise_on_failure: raise" / "return None"
failure_end(raise_on_failure) == IF raise_on_failure THEN "raised" ELSE "None"

\* one turn of the loop of _telegram_call: st is [calls, ret, give_ups], ret
\* being "running" while the loop goes on
telegram_call_attempt(st, attempt, res, retries, has_handler, swallow_bad_request, raise_on_failure, has_on_give_up) ==
  IF st.ret # "running" THEN st
  ELSE IF res = "ok" THEN [st EXCEPT !.calls = @ + 1, !.ret = "result"]
  ELSE IF res = "rate_limit" THEN [st EXCEPT !.calls = @ + 1]
  ELSE IF res = "bad_request" THEN
    [st EXCEPT !.calls = @ + 1,
               !.ret = IF has_handler \/ swallow_bad_request THEN "None" ELSE "raised"]
  ELSE IF res = "network" THEN
    (IF attempt >= retries
       THEN [st EXCEPT !.calls = @ + 1, !.ret = failure_end(raise_on_failure),
                       !.give_ups = IF has_on_give_up THEN @ + 1 ELSE @]
       ELSE [st EXCEPT !.calls = @ + 1])
  ELSE [st EXCEPT !.calls = @ + 1, !.ret = failure_end(raise_on_failure)]

\* _telegram_call when the attempts of the action end as results says: the
\* invocations of the action, how the call ends ("result", "None" -- also
\* when the loop runs out -- or "raised") and the calls of on_give_up
telegram_call_loop(results, retries, has_handler, swallow_bad_request, raise_on_failure, has_on_give_up) ==
  LET after[attempt \in 0..last_attempt(retries)] ==
        IF attempt = 0 THEN [calls |-> 0, ret |-> "running", give_ups |-> 0]
        ELSE telegram_call_attempt(after[attempt - 1], attempt, results[attempt], retries,
                                   has_handler, swallow_bad_request, raise_on_failure,
                                   has_on_give_up)
  IN  [after[last_attempt(retries)] EXCEPT !.ret = IF @ = "running" THEN "None" ELSE @]

TelegramCall(results, retries, has_handler, swallow_bad_request, raise_on_failure, has_on_give_up) ==
  /\ probe = Idle
  /\ probe' = [fn |-> "_telegram_call",
               arg |-> [results |-> results, retries |-> retries, has_handler |-> has_handler,
                        swallow_bad_request |-> swallow_bad_request,
                        raise_on_failure |-> raise_on_failure, has_on_give_up |-> has_on_give_up],
               out |-> telegram_call_loop(results, retries, has_handler, swallow_bad_request,
                                          raise_on_failure, has_on_give_up)]
  /\ UNCHANGED <<run_vars, comp_vars>>

\* --------------------------------------------------- pending reminders (aiogram)
\* The FSM data of the user's private chat is kept by MemoryStorage, whose
\* get_data and update_data do not suspend: the handler steps below are
\* atomic up to the first network call.
\* a pop that leaves the token where it is
pending_kept(pending, token) == pending

\* entry = pending.pop(token, None): the tokens afterwards
pending_pop(pending, token) == pending \ {token}

\* _reset_interaction_state: the tokens afterwards
reset_interaction_state(pending, preserve_pending) ==
  IF preserve_pending THEN pending ELSE {}

\* _pick_target_for_private with at least one candidate chat: a new token
\* is stored with the text and the keyboard of chats is sent
PickTargetForPrivate(token) ==
  /\ token \notin issued
  /\ \A k \in Tokens : k < token => k \in issued
  /\ issued' = issued \cup {token}
  /\ pending_reminders' = pending_reminders \cup {token}
  /\ probe' = [fn |-> "_pick_target_for_private", arg |-> token, out |-> TRUE]
  /\ UNCHANGED <<run_vars, known_chats, recent_signatures, send_vars, cb_vars, creates, calls>>

\* on_callback with CB_PICK_CHAT data carrying the token; accepted is what
\* _debounce returned.  The flags are reset with the pending reminders
\* preserved, the token is popped and, when it was there, schedule_reminder
\* runs with its text; else the query is answered "Истекло"
PickChat(token, accepted) ==
  /\ creates[token] < MaxPicks
  /\ pending_reminders' =
       IF accepted THEN pending_pop(reset_interaction_state(pending_reminders, TRUE), token)
       ELSE pending_reminders
  /\ creates' = IF accepted /\ token \in reset_interaction_state(pending_reminders, TRUE)
                  THEN [creates EXCEPT ![token] = @ + 1] ELSE creates
  /\ probe' = [fn |-> "pick_chat", arg |-> token,
               out |-> IF ~accepted THEN "debounced"
                       ELSE IF token \in reset_interaction_state(pending_reminders, TRUE)
                         THEN "schedule_reminder" ELSE "expired"]
  /\ UNCHANGED <<run_vars, known_chats, recent_signatures, send_vars, cb_vars, issued, calls>>

\* a text message that names an action of the reply menu: the flags and
\* the pending reminders are reset
ReplyMenuAction ==
  /\ pending_reminders' = reset_interaction_state(pending_reminders, FALSE)
  /\ probe' = [fn |-> "reply_menu", arg |-> 0, out |-> "reset"]
  /\ UNCHANGED <<run_vars, known_chats, recent_signatures, send_vars, cb_vars, issued, creates, calls>>

\* on_callback with any other data (the no-op button apart): the flags and
\* the pending reminders are reset before the branch of the data is taken
OtherCallback(accepted) ==
  /\ pending_reminders' =
       IF accepted THEN reset_interaction_state(pending_reminders, FALSE) ELSE pending_reminders
  /\ probe' = [fn |-> "other_callback", arg |-> 0, out |-> IF accepted THEN "reset" ELSE "debounced"]
  /\ UNCHANGED <<run_vars, known_chats, recent_signatures, send_vars, cb_vars, issued, creates, calls>>

\* ------------------------------------------------------------ specification
Next ==
  \/ Startup
  \/ LegacyStartup
  \/ \E dt \in Downtimes : Shutdown(dt)
  \/ \E d \in Steps : Tick(d)
  \/ AdvanceToTimer
  \/ \E j \in JobIds : TimerDue(j)
  \/ \E u \in Users, t \in Texts \cup {BadText}, c \in Chats : Create(u, t, c)
  \/ \E h \in Alive : FireLoad(h)
  \/ \E h \in Alive, res \in Outcomes : FireFinish(h, res)
  \/ \E u \in Users, j \in JobIds : SendNow(u, j)
  \/ \E u \in Users, j \in JobIds : Cancel(u, j)
  \/ \E u \in Users, j \in JobIds, m \in ShiftMinutes : Shift(u, j, m)
  \/ \E u \in Users : Purge(u)
  \/ \E u \in Users, c \in Chats : ChatDel(u, c)
  \/ \E u \in Users, j \in JobIds : Rrule(u, j)
  \/ \E u \in Users, t \in Texts \cup {BadText}, c \in Chats : LegacyCreate(u, t, c)
  \/ \E j \in JobIds, ok \in BOOLEAN : LegacyConfirm(j, ok)
  \/ \E h \in Alive, res \in Outcomes : LegacySendReminder(h, res)
  \/ \E u \in Users, j \in JobIds : LegacySendNow(u, j)
  \/ \E u \in Users, j \in JobIds : LegacyCancel(u, j)
  \/ \E u \in Users, j \in JobIds, m \in ShiftMinutes : LegacyShift(u, j, m)
  \/ \E u \in Users, c \in Chats : LegacyChatDel(u, c)
  \/ \E u \in Users, j \in JobIds : LegacyRrule(u, j, RruleOf(store[j]))

Spec == Init /\ [][Next]_vars

\* The pure functions of the program, each applied once to an input drawn
\* from the sets above; nothing else runs.
PureInit ==
  /\ Init
  /\ engine = "aiogram"
  /\ store = [j \in JobIds |-> NoRec]

PureNext ==
  \/ \E p \in Lines, tnow \in Nows : CoreParse(p, tnow)
  \/ \E p \in Lines, tnow \in Nows : LegacyParse(p, tnow)
  \/ \E eng \in Engines, t \in Texts, off \in UtcOffsets, o \in LeadOffsets, delay \in Delays :
       NewJob(eng, t, off, o, delay)
  \/ \E v \in OffsetValues : OffsetFor(v)
  \/ \E tz_name \in {NoneStr, "", "America/Chicago", "Bad/Zone"},
        env_tz \in {NoneStr, "", "America/Chicago", "Wrong/Zone"},
        default_tz_name \in {"Europe/Moscow", "", "Wrong/Zone"},
        localzone \in {"Asia/Tokyo", LocalFails} :
       ResolveTz(tz_name, env_tz, default_tz_name, localzone)
  \/ \E results \in [1..MaxAttempts -> AttemptResults], retries \in -1..MaxAttempts,
        has_handler \in BOOLEAN, swallow_bad_request \in BOOLEAN,
        raise_on_failure \in BOOLEAN, has_on_give_up \in BOOLEAN :
       TelegramCall(results, retries, has_handler, swallow_bad_request, raise_on_failure,
                    has_on_give_up)

PureSpec == PureInit /\ [][PureNext]_vars

\* The list of known chats under any calls of register_chat and
\* unregister_chat, from the empty list.
ChatsNext ==
  \/ \E chat_id \in ChatIdValues, title \in TitleValues, topic_id \in TopicIdValues,
        topic_title \in TopicTitleValues :
       RegisterChat(chat_id, title, topic_id, topic_title)
  \/ \E chat_id \in ChatIdValues, topic_id \in TopicIdValues : UnregisterChat(chat_id, topic_id)

ChatsSpec == PureInit /\ [][ChatsNext]_vars

\* The dedup guard under any calls of dedup_should_skip and
\* release_signature, after up to MaxFill requests have filled it.
DedupSigs == {Sig(n) : n \in {1, 2, RECENT_MAXLEN, RECENT_MAXLEN + 1, RECENT_MAXLEN + 2, RECENT_MAXLEN + 3}}

DedupNext ==
  \/ \E k \in 0..MaxFill : Requests(k)
  \/ \E signature \in DedupSigs : DedupShouldSkip(signature)
  \/ \E signature \in DedupSigs \cup {<<>>} : ReleaseSignature(signature)

DedupSpec == PureInit /\ [][DedupNext]_vars

\* The send queue of the ptb engine: fire handlers put reminders, the
\* repeating worker takes them, each _deliver task ends.  The scheduler
\* keeps running the worker and the event loop keeps running the tasks.
SendNext ==
  \/ \E n \in Reminders : QueuePut(n)
  \/ ProcessSendQueue
  \/ \E n \in Reminders, res \in {"returned", "raised"} : Deliver(n, res)

SendSpec ==
  /\ PureInit
  /\ [][SendNext]_vars
  /\ WF_vars(ProcessSendQueue)
  /\ \A n \in Reminders : WF_vars(\E res \in {"returned", "raised"} : Deliver(n, res))

\* The callback handler of the ptb engine: queries arrive, each runs
\* on_callback and its runner, in any interleaving and at any pace.
CallbackNext ==
  \/ LoopTick
  \/ \E n \in Queries, msg \in Messages, idem \in IdemKeys : OnCallback(n, msg, idem)
  \/ \E n \in Queries : OnCallbackDup(n)
  \/ \E n \in Queries : RunnerStart(n)
  \/ \E n \in Queries, res \in {"returned", "raised"} : RunnerEnd(n, res)

CallbackSpec == PureInit /\ [][CallbackNext]_vars

\* The pending reminders of one private chat of the aiogram engine: tokens
\* are issued, and callbacks with and without a token arrive in any order.
PickNext ==
  \/ \E token \in Tokens : PickTargetForPrivate(token)
  \/ \E token \in Tokens, accepted \in BOOLEAN : PickChat(token, accepted)
  \/ \E accepted \in BOOLEAN : OtherCallback(accepted)
  \/ ReplyMenuAction

PickSpec == PureInit /\ [][PickNext]_vars

TypeOK ==
  /\ phase \in {"boot", "run"}
  /\ engine \in Engines
  /\ nextId \in 1..(MaxJobs + 1)
  /\ ticks \in 0..MaxTicks
  /\ \A j \in JobIds : attempts[j] \in 0..MaxSends
  /\ \A j \in JobIds : shifts[j] \in 0..MaxShifts
  /\ confirms \subseteq JobIds
  /\ bare \subseteq JobIds
  /\ outcome \in {"none", "FormatError", "Duplicate", "DedupSkipped", "SentImmediately",
                  "Scheduled", "DeliveryFailed", "ChatRemoved"}
  /\ direct \in 0..MaxDirect

\* ------------------------------------------------------------- properties
\* the run date of the reminder found in the table at start
PersistedRun == PersistedRec(RR_ONCE).run_at

\* job j was never cancelled, sent manually or shifted
Untouched(j) == ops[j] \cap {"cancel", "sendnow"} = {} /\ shifts[j] = 0

\* the period of a repeating row
PeriodOf(rec) == IF RruleOf(rec) = RR_DAILY THEN Day ELSE Week

\* C1 (aiogram engine): when cancel races with the timer's fire of a one-shot
\* job -- in any order of their steps, cancel during the in-flight send
\* included -- at most one send is started for the job, and once the fire
\* handler has finished the job has neither a row in the store nor a timer
\* in the scheduler.
C1_CancelFireRace ==
  \A j \in JobIds :
    (engine = "aiogram" /\ kind[j] = RR_ONCE /\ "cancel" \in ops[j]
       /\ "sendnow" \notin ops[j] /\ shifts[j] = 0) =>
      /\ attempts[j] <= 1
      /\ AliveFor(j) = {} => (store[j] = NoRec /\ sched[j] = NoTimer)

\* the timer of a one-shot job came due, the job was cancelled while the send
\* was in flight, and the fire handler has finished since
C1_Witness ==
  \E j \in JobIds :
    /\ engine = "aiogram" /\ kind[j] = RR_ONCE
    /\ now = PersistedRun
    /\ ops[j] = {"cancel"} /\ shifts[j] = 0
    /\ attempts[j] = 1 /\ AliveFor(j) = {}
    /\ store[j] = NoRec /\ sched[j] = NoTimer

\* C2 (aiogram engine): a Daily or Weekly job that was cancelled is, once no
\* fire handler of it is alive, absent from the store and without a timer:
\* the bookkeeping of a handler that was suspended in the send when the
\* cancel ran does not bring it back.
C2_CancelledRecurringStaysAbsent ==
  \A j \in JobIds :
    (engine = "aiogram" /\ kind[j] \in {RR_DAILY, RR_WEEKLY}
       /\ "cancel" \in ops[j] /\ AliveFor(j) = {}) =>
      (store[j] = NoRec /\ sched[j] = NoTimer)

\* C3 (both engines): for a one-shot job that was never cancelled, shifted or
\* sent manually at most one send is started, and once one was started and
\* the fire handler has finished the job id has no row in the store and no
\* timer in the scheduler.
C3_OneShotFiresOnce ==
  \A j \in JobIds :
    (kind[j] = RR_ONCE /\ Untouched(j)) =>
      /\ attempts[j] <= 1
      /\ (attempts[j] = 1 /\ AliveFor(j) = {}) => (store[j] = NoRec /\ sched[j] = NoTimer)

C5_NoSendWithoutRecord ==
  [][\A h \in Alive :
       (h.pc = "start" /\ store[h.id] = NoRec /\ (FireLoad(h) \/ \E res \in Outcomes : LegacySendReminder(h, res)))
         => attempts' = attempts]_vars

\* C6 (aiogram engine): while the process runs and no fire handler of the job
\* is alive, a job id has a row in the store if and only if the scheduler
\* holds exactly one timer for it.
C6_StoreIffTimer ==
  \A j \in JobIds :
    (engine = "aiogram" /\ phase = "run" /\ AliveFor(j) = {}) =>
      (store[j] # NoRec <=> Cardinality(sched[j]) = 1)

\* C7 (aiogram engine): when the fire handler of a repeating job finishes
\* after a shift moved the stored run date during its send, the stored run
\* date becomes the shifted date plus the period (previous + delta + period).
C7_ShiftNotOverwritten ==
  [][\A h \in Alive :
       (/\ \E res \in Outcomes : FireFinish(h, res)
        /\ RruleOf(h.job) \in {RR_DAILY, RR_WEEKLY}
        /\ store[h.id] # NoRec /\ shifts[h.id] > 0
        /\ store[h.id].run_at # h.job.run_at)
         => store'[h.id].run_at = store[h.id].run_at + PeriodOf(h.job)]_vars

\* C8 (both engines): for a one-shot job that was sent manually (and never
\* shifted) at most one send is started in total.
C8_SendNowAtMostOnce ==
  \A j \in JobIds :
    (kind[j] = RR_ONCE /\ shifts[j] = 0 /\ "sendnow" \in ops[j]) => attempts[j] <= 1

\* C9 (both engines): a cancel or send-now by a user who is neither an
\* administrator nor the author of the job, and a shift by a user who is not
\* an administrator, changes neither the store nor the scheduler nor the
\* dedup window and starts no send.
C9_StrangerRefused ==
  [][\A u \in Users, j \in JobIds :
       (/\ store[j] # NoRec /\ ~is_admin(u)
        /\ \/ store[j].author # u /\ (Cancel(u, j) \/ SendNow(u, j))
           \/ store[j].author # u /\ (LegacyCancel(u, j) \/ LegacySendNow(u, j))
           \/ \E m \in ShiftMinutes : Shift(u, j, m) \/ LegacyShift(u, j, m))
         => UNCHANGED <<store, sched, sigs, attempts, tasks>>]_vars

\* C10 (both engines): a shift by an administrator on a stored job leaves the
\* row under the same job id with the previous stored run date plus the
\* delta, and exactly one timer for that id, at the new date.
C10_ShiftFromStoredTime ==
  [][\A u \in Users, j \in JobIds, m \in ShiftMinutes :
       (/\ is_admin(u) /\ store[j] # NoRec /\ store[j].run_at # -1
        /\ (Shift(u, j, m) \/ LegacyShift(u, j, m)))
         => /\ store'[j] # NoRec
            /\ store'[j].run_at = store[j].run_at + 60 * m
            /\ sched'[j] = {store[j].run_at + 60 * m}]_vars

\* C11 (both engines): a cancel of a job id that has no row changes neither
\* the store, the scheduler nor the dedup window and sends nothing; a cancel
\* that is carried out leaves no row, so that the cancel after it is such a
\* cancel and the state stays the one the first cancel left.
C11_CancelIdempotent ==
  [][\A u \in Users, j \in JobIds :
       /\ (store[j] = NoRec /\ (Cancel(u, j) \/ LegacyCancel(u, j)))
            => UNCHANGED <<store, sched, sigs, attempts, direct, tasks>>
       /\ (store[j] # NoRec /\ (Cancel(u, j) \/ (LegacyCancel(u, j) /\ may_manage(u, store[j]))))
            => store'[j] = NoRec]_vars

\* a job was cancelled and then cancelled again
C11_Witness ==
  \E j \in JobIds :
    /\ ops[j] = {"cancel", "again"}
    /\ store[j] = NoRec /\ sched[j] = NoTimer /\ attempts[j] = 0

\* a step of the create handler of the running engine for text t and chat c
CreateStep(t, c) ==
  /\ UNCHANGED <<now, phase, tasks, attempts, ops, shifts, probe, comp_vars>>
  /\ \E u \in Users : Create(u, t, c) \/ LegacyCreate(u, t, c)

\* a live row made from text t for chat c
LiveFor(t, c) == \E j \in JobIds : store[j] # NoRec /\ store[j].text = t /\ store[j].chat = c

\* the signature a submission of text t for chat c computes now
SignatureNow(t, c) == make_signature(c, t, parse_meeting_message(t, now))

\* C12 (both engines): when a text was just scheduled for a chat and its job
\* is live (in the ptb engine: its signature is in the dedup window), the
\* same text submitted again for the same chat ends as DedupSkipped, and the
\* store and the scheduler stay as they are.
C12_SecondSubmissionSkipped ==
  [][\A t \in Texts, c \in Chats :
       (/\ outcome = "Scheduled" /\ LiveFor(t, c)
        /\ engine = "ptb" => SignatureNow(t, c) \in sigs
        /\ CreateStep(t, c))
         => /\ outcome' = "DedupSkipped"
            /\ UNCHANGED <<store, sched>>]_vars

\* C13 (both engines): a cancel that is carried out leaves no row for the job,
\* and then the signature of its text and chat is not in the dedup window, and
\* the same text submitted for the same chat is neither a Duplicate nor
\* DedupSkipped.
C13_CancelReleasesSignature ==
  [][\A u \in Users, j \in JobIds :
       (/\ store[j] # NoRec /\ store[j].text \in Texts
        /\ (Cancel(u, j) \/ (LegacyCancel(u, j) /\ may_manage(u, store[j]))))
         => LET t == store[j].text
                c == store[j].chat
            IN  /\ store'[j] = NoRec
                /\ SignatureNow(t, c) \notin sigs'
                /\ engine = "aiogram" => schedule_outcome(store', t, c, now) # "Duplicate"
                /\ engine = "ptb" => core_outcome(store', sigs', t, c, now) \notin {"Duplicate", "DedupSkipped"}]_vars

\* C14 (both engines): a create request for a text that parses ends as
\* Duplicate exactly when a live job has the same text in the same target
\* chat, and then nothing changes.
C14_DuplicateIffSameChat ==
  [][\A t \in Texts, c \in Chats :
       CreateStep(t, c)
         => /\ outcome' = "Duplicate" <=> LiveFor(t, c)
            /\ outcome' = "Duplicate" => UNCHANGED <<store, sched, sigs, attempts, direct, tasks>>]_vars

\* C15 (both engines): a create request for a text that parses and has no
\* live job, whose fire time is not after now, sends the reminder once, at
\* once: no row is written, no timer is added, no handler is started, and
\* the signature of the request is not in the dedup window afterwards.
C15_PastFireTimeSentAtOnce ==
  [][\A t \in Texts, c \in Chats :
       (/\ ~find_job_by_text(store, t)
        /\ apply_offset(parse_meeting_message(t, now), get_offset_for_chat(c)) <= now
        /\ CreateStep(t, c))
         => /\ direct' = direct + 1
            /\ UNCHANGED <<store, sched, attempts, tasks>>
            /\ SignatureNow(t, c) \notin sigs']_vars

\* a reminder was sent at once and nothing was stored or armed for it
C15_Witness ==
  /\ outcome = "SentImmediately" /\ direct = 1
  /\ \A j \in JobIds : store[j] = NoRec /\ sched[j] = NoTimer
  /\ nextId = 1 /\ sigs = {} /\ BagToSet(tasks) = {}

\* C16 (both engines): a create request whose text does not parse ends as
\* FormatError and changes neither the store, the scheduler nor the dedup
\* window; no reminder is sent and no handler is started.
C16_FormatErrorNoEffect ==
  [][\A c \in Chats :
       CreateStep(BadText, c)
         => /\ outcome' = "FormatError"
            /\ UNCHANGED <<store, sched, sigs, attempts, direct, tasks, nextId>>]_vars

\* a request was answered with the format hint while a job was armed
C16_Witness ==
  /\ outcome = "FormatError" /\ phase = "run" /\ direct = 0
  /\ \E j \in JobIds : store[j] # NoRec /\ sched[j] = {store[j].run_at}

\* the stored fire time of the row lies in the catch-up window at restart
InCatchupWindow(rec) ==
  /\ rec # NoRec /\ rec.run_at # -1
  /\ rec.run_at <= now /\ rec.run_at >= now - CATCHUP_WINDOW_SECONDS

\* C17 (aiogram engine): at restart every persisted job whose fire time lies
\* between now minus the catch-up window and now, both included, is handed
\* to the fire handler at once, whatever offset the job was created with
\* (stated for jobs no callback has moved).
C17_CatchupFiresWhateverOffset ==
  [][Startup =>
       \A j \in JobIds :
         (InCatchupWindow(store[j]) /\ Untouched(j)) => \E h \in BagToSet(tasks') : h.id = j /\ h.src = "catchup"]_vars

\* the handler step that ends a catch-up fire of job j
CatchupFire(h, res) ==
  \/ FireFinish(h, res) /\ h.src = "catchup" /\ store[h.id] = h.job
  \/ LegacySendReminder(h, res) /\ "catchup" \in ops[h.id]

\* C18 (both engines): a Daily or Weekly job fired by catch-up at restart is
\* afterwards still in the store, one period after its fire time, with one
\* timer at that time.
C18_CatchupRecurringAdvanced ==
  [][\A h \in Alive :
       LET j      == h.id
           period == IF kind[j] = RR_DAILY THEN Day ELSE Week
       IN  (/\ kind[j] \in {RR_DAILY, RR_WEEKLY} /\ Untouched(j)
            /\ \E res \in Outcomes : CatchupFire(h, res))
           => /\ store'[j] # NoRec
              /\ store'[j].run_at = PersistedRun + period
              /\ sched'[j] = {PersistedRun + period}]_vars

\* the stored fire time of the row is older than the catch-up window
IsStale(rec) ==
  rec # NoRec /\ rec.run_at # -1 /\ rec.run_at < now - CATCHUP_WINDOW_SECONDS

\* C19 (both engines): at restart a persisted job whose fire time is older
\* than the catch-up window is dropped -- no handler is started for it, no
\* timer is armed for it, and its row does not stay in the store.
C19_StaleDropped ==
  [][(Startup \/ LegacyStartup) =>
       \A j \in JobIds :
         IsStale(store[j])
           => /\ \A h \in BagToSet(tasks') : h.id # j
              /\ sched'[j] = NoTimer
              /\ store'[j] = NoRec]_vars

\* the handler step of job h.id whose delivery ended with res
FailedFire(h, res) ==
  /\ res # "ok"
  /\ \/ FireFinish(h, res) /\ store[h.id] = h.job
     \/ LegacySendReminder(h, res)

\* C20 (both engines): when the delivery of a fired reminder fails, the
\* handler does not raise and does its bookkeeping all the same -- a one-shot
\* job leaves the store and the scheduler, a Daily or Weekly job moves to a
\* later run date with a timer at that date.
C20_FailedDeliveryBookkeeping ==
  [][\A h \in Alive, res \in Outcomes :
       LET j == h.id
       IN  (store[j] # NoRec /\ store[j].run_at # -1 /\ FailedFire(h, res))
           => /\ engine = "aiogram" => send_safe(res) = "returned"
              /\ outcome' = "DeliveryFailed"
              /\ IF RruleOf(store[j]) \in {RR_DAILY, RR_WEEKLY}
                   THEN /\ store'[j] # NoRec
                        /\ store'[j].run_at > store[j].run_at
                        /\ store'[j].run_at \in sched'[j]
                   ELSE /\ store'[j] = NoRec
                        /\ sched'[j] = NoTimer]_vars

\* a delivery failed and the one-shot job is gone from store and scheduler
C20_Witness ==
  /\ engine = "aiogram" /\ outcome = "DeliveryFailed"
  /\ \E j \in JobIds :
       /\ kind[j] = RR_ONCE /\ attempts[j] = 1 /\ Untouched(j)
       /\ store[j] = NoRec /\ sched[j] = NoTimer /\ AliveFor(j) = {}

\* the rows whose target is chat c
JobsForChat(c) == {j \in JobIds : store[j] # NoRec /\ store[j].chat = c}

\* C21 (both engines): when an administrator unregisters a chat, no job
\* for that chat remains in the store afterwards and no timer of such a job
\* remains in the scheduler.
C21_UnregisterArchivesJobs ==
  [][\A u \in Users, c \in Chats :
       (is_admin(u) /\ (ChatDel(u, c) \/ LegacyChatDel(u, c)))
         => \A j \in JobsForChat(c) : store'[j] = NoRec /\ sched'[j] = NoTimer]_vars

\* C22 (both engines): the repeat button pressed by an administrator on a
\* live job writes the next rule of the cycle once, daily, weekly, once to
\* the row and changes nothing else of the row, and no timer.
C22_RecurrenceCycleOnly ==
  [][\A u \in Users, j \in JobIds :
       (/\ is_admin(u) /\ store[j] # NoRec
        /\ (Rrule(u, j) \/ LegacyRrule(u, j, RruleOf(store[j]))))
         => /\ store' = [store EXCEPT ![j] = [@ EXCEPT !.rrule = rrule_cycle(RruleOf(store[j]))]]
            /\ sched' = sched]_vars

\* ---------------------------------------------------- parser properties
ParseProbed == probe.fn \in {"core_parse", "legacy_parse"}

\* a line with all its pieces: its numbers are those of its pieces
FullLine(p) == p \in ShapeLines \cup DateLines /\ p.room # <<>>

\* the meeting of line p in year y
MeetingIn(p, y) == <<y, py_int(p.month), py_int(p.day), py_int(p.hour), py_int(p.minute), 0>>

\* the date of line p is a day of year y
DateIn(p, y) ==
  /\ py_int(p.month) \in 1..12
  /\ py_int(p.day) \in 1..days_in_month(y, py_int(p.month))

\* C23: a parser returns nothing or a time with a zone strictly after now:
\* the meeting of the current year when that is after now, else the meeting
\* of the next year, and nothing when the next year has no such day.
C23_ParsedTimeAfterNow ==
  (ParseProbed /\ FullLine(probe.arg.line)) =>
    LET p    == probe.arg.line
        tnow == probe.arg.now
        this == MeetingIn(p, tnow[1])
    IN  /\ probe.out.ok =>
              /\ dt_lt(tnow, probe.out.dt_local)
              /\ probe.out.tz = ParseTz
              /\ probe.out.dt_local = IF dt_lt(tnow, this) THEN this ELSE MeetingIn(p, tnow[1] + 1)
        /\ (~dt_lt(tnow, this) /\ ~DateIn(p, tnow[1] + 1)) => ~probe.out.ok

\* the meeting of the line is at the very instant of the call, and the
\* parser answered with the meeting of the next year
C23_Witness ==
  /\ ParseProbed /\ FullLine(probe.arg.line)
  /\ probe.arg.now = MeetingIn(probe.arg.line, probe.arg.now[1])
  /\ probe.out.ok
  /\ probe.out.dt_local = MeetingIn(probe.arg.line, probe.arg.now[1] + 1)

\* the line lacks a piece, or a number of it is out of range in every year
Malformed(p) == p \in JunkLines \/ p.room = <<>>
Impossible(p) ==
  /\ FullLine(p)
  /\ \/ py_int(p.month) \notin 1..12
     \/ py_int(p.day) < 1
     \/ py_int(p.day) > (IF py_int(p.month) = 2 THEN 29
                         ELSE IF py_int(p.month) \in {4, 6, 9, 11} THEN 30 ELSE 31)
     \/ py_int(p.hour) > 23
     \/ py_int(p.minute) > 59

\* C24: for a text that is no meeting line (a line without a room is none)
\* and for a date or time that cannot exist a parser returns None; no call
\* of a parser ends with an exception.
C24_NoneNeverRaises ==
  ParseProbed =>
    /\ probe.out.raised = "none"
    /\ (Malformed(probe.arg.line) \/ Impossible(probe.arg.line)) => probe.out = NoParse

\* a line that stops after the time was given to a parser, which returned
\* None
C24_Witness ==
  /\ ParseProbed
  /\ probe.arg.line \in ShapeLines /\ probe.arg.line.room = <<>>
  /\ probe.out = NoParse

\* the canonical text of the meeting every line of ShapeLines stands for
ShapeCanonical(p) ==
  <<"0", "8", ".", "0", "8", " ", "M", " ", "2", "0", ":", "4", "0", " ", "2", "v">>
    \o (IF p.ticket = <<>> THEN <<>> ELSE <<" ">> \o p.ticket)

\* C25: lines that differ only in blanks, in the date separator (. - /) or
\* in the time separator (: .) give, with either parser, one canonical text,
\* whose day, month, hour and minute have two digits.
C25_SeparatorsAndBlanksIgnored ==
  (ParseProbed /\ probe.arg.line \in ShapeLines /\ probe.arg.line.room # <<>>) =>
    /\ probe.out.ok
    /\ probe.out.canonical_full = ShapeCanonical(probe.arg.line)

\* C26: a line without a ticket is parsed, by either parser, with the empty
\* ticket, and its canonical text and its reminder text are the date, the
\* type, the time and the room with nothing after the room.
C26_NoTicketNoTrailingToken ==
  (ParseProbed /\ FullLine(probe.arg.line) /\ probe.arg.line.ticket = <<>> /\ probe.out.ok) =>
    LET o    == probe.out
        want == o.date_str \o <<" ">> \o probe.arg.line.mtype \o <<" ">> \o o.time_str
                  \o <<" ">> \o probe.arg.line.room
    IN  /\ o.ticket = <<>>
        /\ o.canonical_full = want
        /\ o.reminder_text = want

\* ------------------------------------------------- fire time properties
\* the meeting of the request minus the lead offset of its chat, in UTC
MeetingMinusOffset ==
  [wall |-> probe.arg.dt_local.wall - probe.arg.dt_local.utcoffset - 60 * probe.arg.offset,
   utcoffset |-> 0]

\* the request is one whose delay ptb replaces
DelayAdjusted ==
  /\ probe.arg.engine = "ptb"
  /\ MeetingMinusOffset.wall - probe.arg.now <= MIN_DELAY_SECONDS

\* C27 as stated: the fire time stored and scheduled for a new job is the
\* parsed meeting time minus the lead offset of the chat, in UTC.
C27_FireTimeAsStated ==
  (probe.fn = "new_job" /\ probe.out.scheduled) =>
    /\ probe.out.run_at_utc = MeetingMinusOffset
    /\ probe.out.timer = MeetingMinusOffset

\* C27, amended: the fire time stored and scheduled for a new job is the
\* parsed meeting time minus the lead offset of the chat, in UTC, except
\* that the ptb engine stores and schedules now + 5 s when that time is at
\* most 2 s ahead.
C27_FireTimeIsMeetingMinusOffset ==
  (probe.fn = "new_job" /\ probe.out.scheduled) =>
    IF DelayAdjusted
      THEN /\ probe.out.run_at_utc = [wall |-> probe.arg.now + ADJUSTED_DELAY_SECONDS, utcoffset |-> 0]
           /\ probe.out.timer = probe.out.run_at_utc
      ELSE /\ probe.out.run_at_utc = MeetingMinusOffset
           /\ probe.out.timer = MeetingMinusOffset

\* a job was made for a meeting written in a zone ahead of UTC, for a chat
\* with a lead offset that is not the default, and its row and its timer
\* carry the meeting minus the offset in UTC
C27_Witness ==
  /\ probe.fn = "new_job" /\ probe.out.scheduled
  /\ probe.arg.dt_local.utcoffset > 0
  /\ probe.arg.offset \notin {0, DEFAULT_OFFSET_MINUTES}
  /\ probe.out.run_at_utc = MeetingMinusOffset
  /\ probe.out.timer = MeetingMinusOffset

\* ------------------------------------------------- offset properties
\* configured values that are no number, and numbers below zero
NotANumber(v) == v = CfgNone \/ (v.kind = "str" /\ v.s \in {<<>>, <<"b", "a", "d">>, <<"1", ".", "5">>})
BelowZero(v)  == v \in {CfgInt(-5), CfgFloat(-15), CfgStr(<<"-", "5">>)}

\* C28: the lead offset resolved for a chat is an integer that is at least
\* 0: it is 30 when the chat has no offset configured or the configured
\* value is no number, and 0 when the configured value is negative.
C28_OffsetNonNegative ==
  probe.fn = "get_offset" =>
    /\ probe.out \in Nat
    /\ (probe.arg.offset = CfgAbsent \/ NotANumber(probe.arg.offset)) => probe.out = 30
    /\ BelowZero(probe.arg.offset) => probe.out = 0

\* the offset of a chat configured with -5 was resolved, to 0
C28_Witness ==
  /\ probe.fn = "get_offset"
  /\ probe.arg.offset = CfgInt(-5)
  /\ probe.out = 0

\* C29: for a chat whose configured offset is not positive (0, say)
\* get_offset_for_chat returns the default reminder offset, not the
\* configured value.
C29_NonPositiveGivesDefault ==
  (probe.fn = "get_offset" /\ probe.arg.offset \in {CfgInt(0), CfgInt(-5)}) =>
    probe.out = DEFAULT_OFFSET_MINUTES

\* ------------------------------------------------- time zone properties
\* the zone the chat configured, when pytz knows it
ChatZoneValid == probe.arg.tz \in ValidZones

\* C30 as stated: resolve_tz_for_chat never raises and returns the zone of
\* the chat if valid, else the organisation default (ORG_TZ, else the
\* built-in default) if valid, else UTC.
C30_TzChainAsStated ==
  probe.fn = "resolve_tz" =>
    LET org == IF truthy(probe.arg.ORG_TZ) THEN probe.arg.ORG_TZ ELSE probe.arg.DEFAULT_TZ_NAME
    IN  /\ probe.out.raised = "none"
        /\ probe.out.zone = IF ChatZoneValid THEN probe.arg.tz
                            ELSE IF org \in ValidZones THEN org ELSE "UTC"

\* C30, amended: resolve_tz_for_chat never raises and returns the zone of
\* the chat if valid, else the organisation default if valid, else UTC,
\* where the organisation default is ORG_TZ, else the built-in default,
\* else, both being empty, the local zone of the host (UTC when the host
\* cannot tell it).
C30_TzChain ==
  probe.fn = "resolve_tz" =>
    LET org == IF truthy(probe.arg.ORG_TZ) THEN probe.arg.ORG_TZ
               ELSE IF truthy(probe.arg.DEFAULT_TZ_NAME) THEN probe.arg.DEFAULT_TZ_NAME
               ELSE IF probe.arg.localzone = LocalFails THEN "UTC"
               ELSE probe.arg.localzone
    IN  /\ probe.out.raised = "none"
        /\ probe.out.zone = IF ChatZoneValid THEN probe.arg.tz
                            ELSE IF org \in ValidZones THEN org ELSE "UTC"

\* the chat configured a zone pytz does not know, ORG_TZ is not set, and
\* the built-in default was returned
C30_Witness ==
  /\ probe.fn = "resolve_tz"
  /\ probe.arg.tz \in InvalidZones
  /\ probe.arg.ORG_TZ = NoneStr
  /\ probe.arg.DEFAULT_TZ_NAME \in ValidZones
  /\ probe.out = [zone |-> probe.arg.DEFAULT_TZ_NAME, raised |-> "none"]

\* no two entries of the list stand for one (chat id, topic id) pair
OnePerPair(chats) ==
  \A i, k \in 1..Len(chats) :
    i # k => chat_key(chats[i].chat_id, chats[i].topic_id) # chat_key(chats[k].chat_id, chats[k].topic_id)

\* the places of the list that hold the pair
PlacesOf(chats, chat_id, topic_id) ==
  {i \in 1..Len(chats) : chat_key(chats[i].chat_id, chats[i].topic_id) = chat_key(chat_id, topic_id)}

\* C31: after any sequence of register_chat and unregister_chat calls the
\* list of known chats holds at most one entry per (chat id, topic id) pair;
\* register_chat returns True exactly when it appended an entry, and for a
\* pair that is on the list it returns False, adds no entry and leaves the
\* entry of the pair with the title it was given, and with the topic title
\* when it was given one.
C31_OneEntryPerPair ==
  [][/\ OnePerPair(known_chats')
     /\ probe'.fn = "register_chat" =>
          LET chat_id == probe'.arg[1]
              title == probe'.arg[2]
              topic_id == probe'.arg[3]
              topic_title == probe'.arg[4]
              appended == /\ Len(known_chats') = Len(known_chats) + 1
                          /\ SubSeq(known_chats', 1, Len(known_chats)) = known_chats
          IN  /\ probe'.out = TRUE <=> appended
              /\ PlacesOf(known_chats, chat_id, topic_id) # {} =>
                   /\ probe'.out = FALSE
                   /\ Len(known_chats') = Len(known_chats)
                   /\ \A i \in 1..Len(known_chats) :
                        IF i \in PlacesOf(known_chats, chat_id, topic_id)
                          THEN /\ known_chats'[i].title = title
                               /\ topic_title # NoneStr => known_chats'[i].topic_title = topic_title
                          ELSE known_chats'[i] = known_chats[i]]_vars

\* a chat registered under its int id was registered again under the str
\* of the id with another title and topic title: one entry, the new titles
C31_Witness ==
  /\ probe.fn = "register_chat"
  /\ probe.out = FALSE
  /\ probe.arg[1].py = "str" /\ probe.arg[2] = "B" /\ probe.arg[4] = "U"
  /\ Len(known_chats) = 1
  /\ known_chats[1].chat_id.py = "int"
  /\ known_chats[1].title = "B" /\ known_chats[1].topic_title = "U"

\* C32 (both engines): a shift leaves every field of the job other than its
\* fire time as it was -- the text, the target chat, the author, the
\* recurrence and the dedup signature of the row the shift wrote (under the
\* same id in aiogram, under the new id in ptb) are those of the row it
\* found, also when the timer of the job was set by restore_jobs.
C32_ShiftKeepsOtherFields ==
  [][\A j \in JobIds :
       (store[j] # NoRec /\ shifts'[j] = shifts[j] + 1) =>
         LET k == IF engine = "ptb" THEN nextId ELSE j
         IN  /\ store'[k].text = store[j].text
             /\ store'[k].chat = store[j].chat
             /\ store'[k].author = store[j].author
             /\ RruleOf(store'[k]) = RruleOf(store[j])
             /\ store'[k].signature = store[j].signature]_vars

\* C33 (both engines): restart recovery gives every job of the table whose
\* fire time is still ahead exactly one timer, at the fire time the table
\* holds, and leaves the row of the job as it found it.
C33_RestoreRearmsAsPersisted ==
  [][(phase = "boot" /\ phase' = "run") =>
       \A j \in JobIds :
         (store[j] # NoRec /\ store[j].run_at > now) =>
           /\ sched'[j] = {store[j].run_at}
           /\ store'[j] = store[j]]_vars

\* the signatures the guard holds
Held(recent) == {recent[i] : i \in 1..Len(recent)}

\* the guard without the signature, the others in their order
Without(recent, signature) == SelectSeq(recent, LAMBDA x : x # signature)

\* C34: the dedup guard is a FIFO set of capacity 30.  dedup_should_skip
\* returns True and leaves the guard as it is when the signature is held;
\* otherwise it returns False and puts the signature last, the oldest one
\* leaving when 30 are held.  release_signature takes the signature out when
\* it is held and does nothing otherwise.  After every call the guard holds
\* at most 30 signatures, none of them twice.
C34_GuardIsFifoSet ==
  [][/\ Len(recent_signatures') <= RECENT_MAXLEN
     /\ Cardinality(Held(recent_signatures')) = Len(recent_signatures')
     /\ probe'.fn = "dedup_should_skip" =>
          IF probe'.arg \in Held(recent_signatures)
            THEN probe'.out = TRUE /\ recent_signatures' = recent_signatures
            ELSE /\ probe'.out = FALSE
                 /\ recent_signatures' =
                      Append(IF Len(recent_signatures) = RECENT_MAXLEN
                               THEN Tail(recent_signatures) ELSE recent_signatures,
                             probe'.arg)
     /\ probe'.fn = "release_signature" =>
          recent_signatures' = Without(recent_signatures, probe'.arg)]_vars

\* the guard was full, a new signature pushed the oldest one out, and the
\* oldest one, asked again, was not skipped and pushed out the next
C34_Witness ==
  /\ Len(recent_signatures) = RECENT_MAXLEN
  /\ probe.fn = "dedup_should_skip" /\ probe.arg = Sig(1) /\ probe.out = FALSE
  /\ recent_signatures[RECENT_MAXLEN] = Sig(1)
  /\ recent_signatures[RECENT_MAXLEN - 1] = Sig(RECENT_MAXLEN + 1)
  /\ recent_signatures[1] = Sig(3)

\* C35 (ptb engine): every reminder a fire handler puts on the send queue
\* is taken off the queue once and no more, and one delivery is made for it
\* and ends, whatever became of the deliveries before it; a delivery that
\* failed is in the error log.
C35_QueuedReminderDeliveredOnce ==
  /\ [](\A n \in Reminders :
          /\ send_log[n].taken <= 1
          /\ send_log[n].ended + deliver_tasks[n] = send_log[n].taken
          /\ send_log[n].logged <= send_log[n].ended)
  /\ \A n \in Reminders :
       send_log[n].put ~> (send_log[n].taken = 1 /\ send_log[n].ended = 1)

\* the first reminder failed and was logged, and the one put after it was
\* delivered all the same
C35_Witness ==
  /\ send_log[1].logged = 1
  /\ send_log[2].ended = 1 /\ send_log[2].logged = 0
  /\ send_queue = <<>>

\* C36 (ptb engine): the bodies of two callbacks on one message never run
\* at the same time while the lock each of them took is younger than
\* CALLBACK_LOCK_TTL; a callback that arrives while the lock is held runs no
\* body; and once no callback of the message is on its way the message has
\* no lock left, whether the body returned or raised or the callback was
\* rejected by the idempotency check.
C36_OneBodyPerMessage ==
  /\ \A n, k \in Queries :
       (/\ n # k
        /\ callbacks[n].pc = "body" /\ callbacks[k].pc = "body"
        /\ callbacks[n].msg = callbacks[k].msg)
       => ~(/\ loop_time - callbacks[n].at < CALLBACK_LOCK_TTL
            /\ loop_time - callbacks[k].at < CALLBACK_LOCK_TTL)
  /\ \A msg \in Messages :
       (\A n \in Queries : callbacks[n].msg = msg => callbacks[n].pc \notin {"dup", "pre", "body"})
       => callback_locks[msg] = 0

\* C37 (ptb engine): a callback is not accepted for a run under an
\* idempotency key within IDEMPOTENCY_TTL of the start of a run under the
\* key that is still going on, or of the end of a run under the key that
\* returned; a callback rejected for it changes no entry; and after a run
\* that raised the next callback of the key is accepted.
C37_OneRunPerKey ==
  [][\A n \in Queries :
       (callbacks[n] = NoQuery /\ callbacks'[n] # NoQuery) =>
         /\ callbacks'[n].pc = "pre" =>
              \A k \in Queries \ {n} :
                callbacks[k].idem = callbacks'[n].idem =>
                  /\ ~(/\ callbacks[k].pc \in {"pre", "body"}
                       /\ loop_time - callbacks[k].at < IDEMPOTENCY_TTL)
                  /\ ~(/\ callbacks[k].pc = "ok"
                       /\ loop_time - callbacks[k].ended < IDEMPOTENCY_TTL)
         /\ callbacks'[n].pc = "dup" => idempotency' = cleanup_idempotency(idempotency, loop_time)]_vars

\* the attempts _telegram_call made, and whether each of them ended in a
\* retryable network error or a rate limit
AttemptsMade == 1..probe.out.calls
AllRetryable == \A i \in 1..last_attempt(probe.arg.retries) :
                  probe.arg.results[i] \in {"network", "rate_limit"}

\* C38: _telegram_call ends after at most max(1, retries) invocations of
\* the action; when an attempt succeeds it returns the result at that
\* attempt, the first that succeeds; and when every attempt ends in a
\* retryable network error or a rate limit and raise_on_failure is false it
\* returns None and does not raise; on_give_up is called at most once.
C38_TelegramCallBounded ==
  probe.fn = "_telegram_call" =>
    /\ probe.out.calls >= 1
    /\ probe.out.calls <= last_attempt(probe.arg.retries)
    /\ probe.out.ret \in {"result", "None", "raised"}
    /\ probe.out.ret = "result" <=>
         /\ probe.arg.results[probe.out.calls] = "ok"
         /\ \A i \in AttemptsMade \ {probe.out.calls} : probe.arg.results[i] # "ok"
    /\ (AllRetryable /\ ~probe.arg.raise_on_failure) => probe.out.ret = "None"
    /\ probe.out.give_ups <= 1

\* three attempts, a rate limit and then two network errors, and the call
\* gave up once and returned None
C38_Witness ==
  /\ probe.fn = "_telegram_call"
  /\ probe.arg.retries = MaxAttempts
  /\ probe.arg.results = <<"rate_limit", "network", "network">>
  /\ ~probe.arg.raise_on_failure
  /\ probe.out = [calls |-> MaxAttempts, ret |-> "None", give_ups |-> 1]

\* C39 (aiogram engine): a token creates at most one reminder.  A pick_chat
\* callback that on_callback lets through and that finds its token pending
\* removes the token and runs schedule_reminder once; one that does not
\* find it -- the token was used before, or was cleared by a callback
\* without token in between, or was never issued -- runs nothing and leaves
\* the pending reminders as they are.
C39_TokenCreatesOnce ==
  [][\A token \in Tokens :
       /\ creates'[token] <= 1
       /\ creates'[token] # creates[token] =>
            /\ probe'.fn = "pick_chat" /\ probe'.arg = token
            /\ token \in pending_reminders /\ token \notin pending_reminders'
       /\ (probe'.fn = "pick_chat" /\ probe'.arg = token /\ probe'.out # "debounced") =>
            IF token \in pending_reminders
              THEN /\ creates'[token] = creates[token] + 1
                   /\ pending_reminders' = pending_reminders \ {token}
              ELSE /\ creates' = creates
                   /\ pending_reminders' = pending_reminders
                   /\ probe'.out = "expired"]_vars

\* the first token was used once and its second callback found it expired,
\* the second token was cleared by a callback without token and never used
C39_Witness ==
  /\ issued = {1, 2}
  /\ creates[1] = 1 /\ creates[2] = 0
  /\ pending_reminders = {}
  /\ probe = [fn |-> "pick_chat", arg |-> 2, out |-> "expired"]

====
